---- MODULE Spec2Model ----
(***************************************************************************)
(* Abyssal Loot Tracker: the inventory diff engine (LootRun) and the price *)
(* resolution pipeline (price_checker), as state machines.                 *)
(*                                                                         *)
(* Item names are tuples of words, so that the skip rule                   *)
(* ("Blueprint" in name) is computed on the name and not looked up.        *)
(***************************************************************************)
EXTENDS Integers, Sequences, FiniteSets, TLC

VARIABLES
    states,       \* LootRun.states of the session under diff: a sequence of RunState
    diff_result,  \* return values of the last get_looted_items / get_consumed_items calls
    fetched,      \* the last fetch_price_from_api call: its response and return value
    now,          \* time.time(), in ticks of 1/TicksPerSecond second
    cache,        \* the prices table: type_id -> (min_sell, max_buy, last_updated)
    resolved_at,  \* history: the tick at which each cache entry was last put
    last_put,     \* history: the arguments and the tick of the last update_cached_price call for each type_id
    lookup,       \* the last direct get_cached_price call: its argument and return value
    pc,           \* where the get_prices_for_items call stands
    calls,        \* get_prices_for_items calls finished so far
    item_names,   \* the argument of the call
    price_results,        \* its local price_results
    items_to_fetch_api,   \* its local items_to_fetch_api: <<name, type_id>> in insertion order
    task_result,  \* return value of each fetch task, "pending" while it awaits
    done_order,   \* history: the task indices in the order the fetches completed
    cache0,       \* history: the cache when the call started
    oplog,        \* history: the reference lookups, cache reads, requests and cache writes of the call
    content,            \* ClipboardChanged.content: the text handed to from_clipboard
    new_state,          \* what RunState.from_clipboard of domain/loot_run.py returned for it
    root_new_state,     \* what RunState.from_clipboard of loot_run.py returned for it
    active_run,   \* LootTrackerApp.active_run: None or the LootRun of the open session
    app_pc,       \* "idle", "awaiting" (stop_current_run suspended at its await) or "crashed"
    crash,        \* the call whose exception ended the application, "none" while it runs
    queue,        \* the messages posted to the application and not handled yet
    disabled,     \* the disabled flags of the buttons start_run and stop_run
    stop_frame,   \* the locals of the suspended stop_current_run
    runs,         \* LootTrackerApp.runs
    db,           \* the tables runs, items and run_items of the database
    sessions,     \* the sessions started so far
    last_content, \* ClipboardMonitor._last_content: the text posted last
    clipboard_monitor,  \* the ClipboardMonitor: its fields running and _last_content
    clipboard,          \* the text pyperclip.paste() returns when the read succeeds
    intervals,          \* the polling timers registered with App.set_interval
    posted,       \* history: the messages posted with App.post_message, each with its running period
    period,       \* history: the running periods begun so far
    monitor_call  \* history: the last call on the monitor and what it found

diffVars == <<states, diff_result>>
fetchVars == <<fetched>>
cacheVars == <<now, cache, resolved_at, last_put, lookup>>
callVars == <<pc, calls, item_names, price_results, items_to_fetch_api,
              task_result, done_order, cache0, oplog>>
parseVars == <<content, new_state, root_new_state>>
appVars == <<active_run, app_pc, crash, queue, disabled, stop_frame, runs, db, sessions,
             last_content>>
monVars == <<clipboard_monitor, clipboard, intervals, posted, period, monitor_call>>

vars == <<states, diff_result, fetched, now, cache, resolved_at, last_put, lookup,
          pc, calls, item_names, price_results, items_to_fetch_api,
          task_result, done_order, cache0, oplog,
          content, new_state, root_new_state,
          active_run, app_pc, crash, queue, disabled, stop_frame, runs, db, sessions,
          last_content,
          clipboard_monitor, clipboard, intervals, posted, period, monitor_call>>

(***************************************************************************)
(* Values                                                                  *)
(***************************************************************************)
None == [kind |-> "None"]

Ore == <<"Ore">>
Gas == <<"Gas">>
OreBlueprint == <<"Ore", "Blueprint">>
Junk == <<"Junk">>

\* bounds of the diff engine's inputs
MaxQty == 2
MaxStates == 3

DiffNames == {Ore, Gas}

EmptyDict == [n \in {} |-> 0]

\* RunState.items: a dict name -> Item(name, quantity), keyed by a subset of the names
ItemDicts == UNION {[S -> 0..MaxQty] : S \in SUBSET DiffNames}

\* RunState (the timestamp is read by no operation of the diff engine)
RunStates == [items : ItemDicts]

(***************************************************************************)
(* domain/loot_run.py: LootRun                                             *)
(***************************************************************************)
\* initial_items.get(name, Item(name, 0)).quantity
GetQuantity(items, name) == IF name \in DOMAIN items THEN items[name] ELSE 0

get_looted_items_first_only(sts) ==
    IF Len(sts) < 2 THEN EmptyDict
    ELSE LET initial_items == sts[1].items
             latest_items == sts[2].items
             gained == {name \in DOMAIN latest_items :
                          latest_items[name] > GetQuantity(initial_items, name)}
         IN  [name \in gained |-> latest_items[name] - GetQuantity(initial_items, name)]

get_looted_items_from_empty(sts) ==
    IF Len(sts) = 0 THEN EmptyDict
    ELSE LET initial_items == IF Len(sts) = 1 THEN EmptyDict ELSE sts[1].items
             latest_items == sts[Len(sts)].items
             gained == {name \in DOMAIN latest_items :
                          latest_items[name] > GetQuantity(initial_items, name)}
         IN  [name \in gained |-> latest_items[name] - GetQuantity(initial_items, name)]

get_looted_items(sts) ==
    IF Len(sts) < 2 THEN EmptyDict
    ELSE LET initial_items == sts[1].items
             latest_items == sts[Len(sts)].items
             gained == {name \in DOMAIN latest_items :
                          latest_items[name] > GetQuantity(initial_items, name)}
         IN  [name \in gained |-> latest_items[name] - GetQuantity(initial_items, name)]

get_consumed_items_any_change(sts) ==
    IF Len(sts) < 2 THEN EmptyDict
    ELSE LET initial_items == sts[1].items
             latest_items == sts[Len(sts)].items
             lost == {name \in DOMAIN initial_items :
                        initial_items[name] # GetQuantity(latest_items, name)}
         IN  [name \in lost |-> initial_items[name] - GetQuantity(latest_items, name)]

get_consumed_items(sts) ==
    IF Len(sts) < 2 THEN EmptyDict
    ELSE LET initial_items == sts[1].items
             latest_items == sts[Len(sts)].items
             lost == {name \in DOMAIN initial_items :
                        initial_items[name] > GetQuantity(latest_items, name)}
         IN  [name \in lost |-> initial_items[name] - GetQuantity(latest_items, name)]

get_looted_items_setdefault(sts) ==
    IF Len(sts) < 2 THEN sts
    ELSE [sts EXCEPT ![1].items =
            [name \in DOMAIN sts[1].items \cup DOMAIN sts[Len(sts)].items |->
               GetQuantity(sts[1].items, name)]]

\* self.states after get_looted_items: the method reads the two snapshots
\* (dict.get with a default that is not stored) and writes its local looted
get_looted_items_states(sts) == sts

\* self.states after get_consumed_items, likewise
get_consumed_items_states(sts) == sts

(***************************************************************************)
(* loot_run.py (repository root): the LootRun that main.py imports         *)
(***************************************************************************)
root_get_looted_items(sts) ==
    IF sts = <<>> THEN EmptyDict
    ELSE LET initial_items == sts[1].items
             latest_items == sts[Len(sts)].items
             gained == {name \in DOMAIN latest_items :
                          \/ name \notin DOMAIN initial_items
                          \/ /\ name \in DOMAIN initial_items
                             /\ latest_items[name] > initial_items[name]}
         IN  [name \in gained |->
                IF name \notin DOMAIN initial_items
                THEN latest_items[name]
                ELSE latest_items[name] - initial_items[name]]

root_get_consumed_items(sts) ==
    IF sts = <<>> THEN EmptyDict
    ELSE LET initial_items == sts[1].items
             latest_items == sts[Len(sts)].items
             lost == {name \in DOMAIN initial_items :
                        \/ name \notin DOMAIN latest_items
                        \/ /\ name \in DOMAIN latest_items
                           /\ latest_items[name] < initial_items[name]}
         IN  [name \in lost |->
                IF name \notin DOMAIN latest_items
                THEN initial_items[name]
                ELSE initial_items[name] - latest_items[name]]

(***************************************************************************)
(* services/price_checker.py: values                                       *)
(***************************************************************************)
Some(v) == [kind |-> "Some", val |-> v]

\* Python floats: the finite ones (integer-valued here), nan, inf and -inf
F(n) == [kind |-> "float", val |-> n]
NaN == [kind |-> "nan", val |-> 0]
PosInf == [kind |-> "inf", val |-> 0]
NegInf == [kind |-> "ninf", val |-> 0]
Raise(exc) == [kind |-> "raise", val |-> 0, exc |-> exc]

\* bounds of the price pipeline's inputs
MaxPrice == 2
MaxNames == 2
MaxCalls == 2
MaxSkew == 1
TicksPerSecond == 2

CACHE_DURATION_SECONDS == 4 * 60 * 60

\* a field of the response's JSON object, as response.json() decodes it
Raw(kind, val) == [kind |-> kind, val |-> val]
RawNumbers == (-1)..MaxPrice
RawValues ==
    {Raw(k, 0) : k \in {"missing", "null", "nan", "inf", "ninf", "str_bad",
                        "str_nan", "str_inf", "str_ninf", "list", "bigint"}}
    \cup {Raw(k, n) : k \in {"num", "str_num"}, n \in RawNumbers}
    \cup {Raw("bool", b) : b \in {0, 1}}

\* what session.get / raise_for_status / response.json() end with
Outcomes == {"ok", "timeout", "transport_error", "bad_status", "bad_json", "not_object"}
Response(o, a, b) == [outcome |-> o, minSell |-> a, maxBuy |-> b]
FailedResponses == {Response(o, Raw("missing", 0), Raw("missing", 0)) : o \in Outcomes \ {"ok"}}
Responses == FailedResponses \cup {Response("ok", a, b) : a, b \in RawValues}

(***************************************************************************)
(* services/price_checker.py: the sanitizer and the fetch                  *)
(***************************************************************************)
\* data.get(key): None for an absent key and for JSON null
DataGet(raw) == IF raw.kind \in {"missing", "null"} THEN None ELSE raw

\* float(value)
PyFloat(value) ==
    CASE value.kind \in {"num", "str_num", "bool"} -> F(value.val)
      [] value.kind \in {"nan", "str_nan"} -> NaN
      [] value.kind \in {"inf", "str_inf"} -> PosInf
      [] value.kind \in {"ninf", "str_ninf"} -> NegInf
      [] value.kind = "str_bad" -> Raise("ValueError")
      [] value.kind = "list" -> Raise("TypeError")
      [] value.kind = "bigint" -> Raise("OverflowError")

\* _to_finite_float; an exception it does not catch is returned as Raise
to_finite_float(value) ==
    IF value = None THEN F(0)
    ELSE LET f_val == PyFloat(value)
         IN  IF f_val.kind = "raise"
             THEN (IF f_val.exc \in {"ValueError", "TypeError"} THEN F(0) ELSE f_val)
             ELSE IF f_val = NaN \/ f_val = PosInf \/ f_val = NegInf THEN F(0)
             ELSE f_val

\* fetch_price_from_api: Some(<<min_sell, max_buy>>) or None
fetch_price_from_api(response) ==
    IF response.outcome # "ok" THEN None
    ELSE LET min_sell == to_finite_float(DataGet(response.minSell))
             max_buy == to_finite_float(DataGet(response.maxBuy))
         IN  IF min_sell.kind = "raise" \/ max_buy.kind = "raise"
             THEN None
             ELSE Some(<<min_sell, max_buy>>)

(***************************************************************************)
(* services/price_checker.py: the reference dataset and the price cache    *)
(***************************************************************************)
PriceNames == {Ore, Gas, OreBlueprint, Junk}

\* invTypes of the reference dataset: typeName -> typeID
SdeTable == (Ore :> 1) @@ (Gas :> 2) @@ (OreBlueprint :> 3)
TypeIds == {SdeTable[n] : n \in DOMAIN SdeTable}

\* dict[k] = v
DictSet(d, k, v) == [x \in (DOMAIN d) \cup {k} |-> IF x = k THEN v ELSE d[x]]

\* "Blueprint" in name
Contains(name, word) == \E i \in DOMAIN name : name[i] = word

\* get_type_id_from_sde; sde_ok is FALSE when the dataset file is missing
\* or the query raises sqlite3.Error
get_type_id_from_sde(name, sde_ok) ==
    IF ~sde_ok THEN None
    ELSE IF name \in DOMAIN SdeTable THEN Some(SdeTable[name]) ELSE None

\* the truth value of an Optional[int]
Truthy(type_id) == type_id # None /\ type_id.val # 0
OrZero(type_id) == IF Truthy(type_id) THEN type_id.val ELSE 0

\* int(time.time()) at tick t
Second(t) == t \div TicksPerSecond

TTLTicks == CACHE_DURATION_SECONDS * TicksPerSecond

\* the instants the clock is observed at: around 0 and around one TTL later
Instants == (0..MaxSkew) \cup ((TTLTicks - MaxSkew)..(TTLTicks + MaxSkew))

get_cached_price_inclusive(type_id, read_ok) ==
    IF ~read_ok THEN None
    ELSE IF type_id \in DOMAIN cache
         THEN (IF now - cache[type_id].last_updated * TicksPerSecond <= TTLTicks
               THEN Some(<<cache[type_id].min_sell, cache[type_id].max_buy>>)
               ELSE None)
         ELSE None

\* get_cached_price; read_ok is FALSE when the read raises sqlite3.Error.
\* time.time() - last_updated < CACHE_DURATION_SECONDS, both sides in ticks
get_cached_price(type_id, read_ok) ==
    IF ~read_ok THEN None
    ELSE IF type_id \in DOMAIN cache
         THEN (IF now - cache[type_id].last_updated * TicksPerSecond < TTLTicks
               THEN Some(<<cache[type_id].min_sell, cache[type_id].max_buy>>)
               ELSE None)
         ELSE None

get_cached_price_evicts_stale(table, type_id, read_ok) ==
    IF /\ read_ok
       /\ type_id \in DOMAIN table
       /\ ~(now - table[type_id].last_updated * TicksPerSecond < TTLTicks)
    THEN [id \in DOMAIN table \ {type_id} |-> table[id]]
    ELSE table

\* the prices table after get_cached_price: the function executes one SELECT
\* and no other statement, whether the row is absent, fresh or expired
get_cached_price_table(table, type_id, read_ok) == table

update_cached_price_insert_or_ignore(table, type_id, min_sell, max_buy) ==
    IF type_id \in DOMAIN table THEN table
    ELSE DictSet(table, type_id,
                 [min_sell |-> min_sell, max_buy |-> max_buy, last_updated |-> Second(now)])

\* update_cached_price on the table: INSERT OR REPLACE with int(time.time())
update_cached_price(table, type_id, min_sell, max_buy) ==
    DictSet(table, type_id,
            [min_sell |-> min_sell, max_buy |-> max_buy, last_updated |-> Second(now)])

(***************************************************************************)
(* services/price_checker.py: get_prices_for_items                         *)
(***************************************************************************)
Pending == [kind |-> "pending"]

Price(min_sell, max_buy, source, type_id) ==
    [min_sell |-> min_sell, max_buy |-> max_buy, source |-> source, type_id |-> type_id]

Op(op, name, id) == [op |-> op, name |-> name, id |-> id]

\* a cache read in the log, with whether it ended without sqlite3.Error
ReadOp(name, id, read_ok) == [op |-> "read", name |-> name, id |-> id, ok |-> read_ok]

ODictSet_appends(od, k, v) == Append(od, <<k, v>>)

\* items_to_fetch_api[name] = type_id on an insertion-ordered dict
ODictSet(od, k, v) ==
    IF \E i \in DOMAIN od : od[i][1] = k
    THEN [i \in DOMAIN od |-> IF od[i][1] = k THEN <<k, v>> ELSE od[i]]
    ELSE Append(od, <<k, v>>)

ClassifyOne_reads_blueprint(acc, name, sde_ok, read_ok) ==
    LET type_id == get_type_id_from_sde(name, sde_ok)
        looked == Append(acc.log, Op("sde", name, OrZero(type_id)))
    IN  IF ~Truthy(type_id)
        THEN [acc EXCEPT !.results = DictSet(@, name, Price(F(0), F(0), "not_found", 0)),
                         !.log = looked]
        ELSE LET cached == get_cached_price(type_id.val, read_ok)
                 read == Append(looked, ReadOp(name, type_id.val, read_ok))
             IN  IF Contains(name, "Blueprint")
                 THEN [acc EXCEPT !.results = DictSet(@, name,
                                        Price(F(0), F(0), "blueprint_skip", type_id.val)),
                                  !.log = read]
                 ELSE IF cached # None
                 THEN [acc EXCEPT !.results = DictSet(@, name,
                                        Price(cached.val[1], cached.val[2], "cache", type_id.val)),
                                  !.log = read]
                 ELSE [acc EXCEPT !.to_fetch = ODictSet(@, name, type_id.val),
                                  !.log = read]

ClassifyOne_drops_not_found(acc, name, sde_ok, read_ok) ==
    LET type_id == get_type_id_from_sde(name, sde_ok)
        looked == Append(acc.log, Op("sde", name, OrZero(type_id)))
    IN  IF Contains(name, "Blueprint")
        THEN [acc EXCEPT !.results = DictSet(@, name,
                               Price(F(0), F(0), "blueprint_skip", OrZero(type_id))),
                         !.log = looked]
        ELSE IF ~Truthy(type_id)
        THEN [acc EXCEPT !.log = looked]
        ELSE LET cached == get_cached_price(type_id.val, read_ok)
                 read == Append(looked, ReadOp(name, type_id.val, read_ok))
             IN  IF cached # None
                 THEN [acc EXCEPT !.results = DictSet(@, name,
                                        Price(cached.val[1], cached.val[2], "cache", type_id.val)),
                                  !.log = read]
                 ELSE [acc EXCEPT !.to_fetch = ODictSet(@, name, type_id.val),
                                  !.log = read]

ClassifyOne_fetches_at_miss(acc, name, sde_ok, read_ok) ==
    LET type_id == get_type_id_from_sde(name, sde_ok)
        looked == Append(acc.log, Op("sde", name, OrZero(type_id)))
    IN  IF Contains(name, "Blueprint")
        THEN [acc EXCEPT !.results = DictSet(@, name,
                               Price(F(0), F(0), "blueprint_skip", OrZero(type_id))),
                         !.log = looked]
        ELSE IF ~Truthy(type_id)
        THEN [acc EXCEPT !.results = DictSet(@, name, Price(F(0), F(0), "not_found", 0)),
                         !.log = looked]
        ELSE LET cached == get_cached_price(type_id.val, read_ok)
                 read == Append(looked, ReadOp(name, type_id.val, read_ok))
             IN  IF cached # None
                 THEN [acc EXCEPT !.results = DictSet(@, name,
                                        Price(cached.val[1], cached.val[2], "cache", type_id.val)),
                                  !.log = read]
                 ELSE [acc EXCEPT !.to_fetch = ODictSet(@, name, type_id.val),
                                  !.log = Append(read, Op("fetch", name, type_id.val))]

\* one pass of the first loop; acc holds price_results, items_to_fetch_api and the log
ClassifyOne(acc, name, sde_ok, read_ok) ==
    LET type_id == get_type_id_from_sde(name, sde_ok)
        looked == Append(acc.log, Op("sde", name, OrZero(type_id)))
    IN  IF Contains(name, "Blueprint")
        THEN [acc EXCEPT !.results = DictSet(@, name,
                               Price(F(0), F(0), "blueprint_skip", OrZero(type_id))),
                         !.log = looked]
        ELSE IF ~Truthy(type_id)
        THEN [acc EXCEPT !.results = DictSet(@, name, Price(F(0), F(0), "not_found", 0)),
                         !.log = looked]
        ELSE LET cached == get_cached_price(type_id.val, read_ok)
                 read == Append(looked, ReadOp(name, type_id.val, read_ok))
             IN  IF cached # None
                 THEN [acc EXCEPT !.results = DictSet(@, name,
                                        Price(cached.val[1], cached.val[2], "cache", type_id.val)),
                                  !.log = read]
                 ELSE [acc EXCEPT !.to_fetch = ODictSet(@, name, type_id.val),
                                  !.log = read]

\* the first loop from position i on; the lookups at the positions in
\* sde_fail and the cache reads at those in read_fail fail
RECURSIVE ClassifyFrom(_, _, _, _, _)
ClassifyFrom(names, i, sde_fail, read_fail, acc) ==
    IF i > Len(names) THEN acc
    ELSE ClassifyFrom(names, i + 1, sde_fail, read_fail,
                      ClassifyOne(acc, names[i], i \notin sde_fail, i \notin read_fail))

\* a gather handing the results back in completion order, which
\* asyncio.gather does not do
gather_as_completed(results, order) ==
    [k \in DOMAIN order |-> results[order[k]]]

\* asyncio.gather(*tasks): the tasks' results in the order of the tasks
gather(results, order) == results

ProcessOne_labels_swapped(acc, item_name, type_id, price_tuple, write_ok) ==
    IF acc.raised THEN acc
    ELSE IF price_tuple # None
    THEN LET set == [acc EXCEPT !.results = DictSet(@, item_name,
                              Price(price_tuple.val[1], price_tuple.val[2], "api_fail", type_id))]
         IN  IF write_ok
             THEN [set EXCEPT !.table = update_cached_price(@, type_id,
                                            price_tuple.val[1], price_tuple.val[2]),
                              !.log = Append(@, Op("write", item_name, type_id))]
             ELSE [set EXCEPT !.raised = TRUE]
    ELSE [acc EXCEPT !.results = DictSet(@, item_name, Price(F(0), F(0), "api", type_id))]

ProcessOne_caches_failure(acc, item_name, type_id, price_tuple, write_ok) ==
    IF acc.raised THEN acc
    ELSE LET prices == IF price_tuple # None THEN price_tuple.val ELSE <<F(0), F(0)>>
             source == IF price_tuple # None THEN "api" ELSE "api_fail"
             set == [acc EXCEPT !.results = DictSet(@, item_name,
                              Price(prices[1], prices[2], source, type_id))]
         IN  IF write_ok
             THEN [set EXCEPT !.table = update_cached_price(@, type_id, prices[1], prices[2]),
                              !.log = Append(@, Op("write", item_name, type_id))]
             ELSE [set EXCEPT !.raised = TRUE]

ProcessOne_cancelled(acc, item_name, type_id, price_tuple, write_ok) ==
    IF acc.raised THEN acc
    ELSE IF /\ price_tuple # None
            /\ ~ \E n \in DOMAIN acc.results : acc.results[n].source = "api_fail"
    THEN LET set == [acc EXCEPT !.results = DictSet(@, item_name,
                              Price(price_tuple.val[1], price_tuple.val[2], "api", type_id))]
         IN  IF write_ok
             THEN [set EXCEPT !.table = update_cached_price(@, type_id,
                                            price_tuple.val[1], price_tuple.val[2]),
                              !.log = Append(@, Op("write", item_name, type_id))]
             ELSE [set EXCEPT !.raised = TRUE]
    ELSE [acc EXCEPT !.results = DictSet(@, item_name, Price(F(0), F(0), "api_fail", type_id))]

\* one pass of the second loop; acc holds price_results, the prices table and
\* the log; write_ok is FALSE when update_cached_price raises sqlite3.Error,
\* which nothing catches: the loop and the call end there
ProcessOne(acc, item_name, type_id, price_tuple, write_ok) ==
    IF acc.raised THEN acc
    ELSE IF price_tuple # None
    THEN LET set == [acc EXCEPT !.results = DictSet(@, item_name,
                              Price(price_tuple.val[1], price_tuple.val[2], "api", type_id))]
         IN  IF write_ok
             THEN [set EXCEPT !.table = update_cached_price(@, type_id,
                                            price_tuple.val[1], price_tuple.val[2]),
                              !.log = Append(@, Op("write", item_name, type_id))]
             ELSE [set EXCEPT !.raised = TRUE]
    ELSE [acc EXCEPT !.results = DictSet(@, item_name, Price(F(0), F(0), "api_fail", type_id))]

\* the second loop over zip(keys, values, api_price_tuples) from position i on
RECURSIVE ProcessFrom(_, _, _, _, _)
ProcessFrom(to_fetch, api_price_tuples, i, write_fail, acc) ==
    IF i > Len(to_fetch) \/ i > Len(api_price_tuples) THEN acc
    ELSE ProcessFrom(to_fetch, api_price_tuples, i + 1, write_fail,
                     ProcessOne(acc, to_fetch[i][1], to_fetch[i][2],
                                api_price_tuples[i], i \notin write_fail))

(***************************************************************************)
(* domain/loot_run.py: RunState.from_clipboard                             *)
(*                                                                         *)
(* A text is a sequence of symbols. The alphabet holds two words (runs of  *)
(* letters, which no operation of the parser splits), two ASCII digits, a  *)
(* minus sign, the three whitespace characters the inventory text uses,    *)
(* and two characters for which str.isdigit() is true without being ASCII: *)
(* SUP2 (superscript two, which int() rejects) and AR3 (Arabic-Indic       *)
(* three, which int() reads as 3).                                         *)
(***************************************************************************)
TAB == "TAB"
NL == "NL"
SP == "SP"
SUP2 == "SUP2"
AR3 == "AR3"

\* bounds of the parser's inputs
MaxLineLen == 4

Letters == {"Ore", "Gas"}
AsciiDigits == {"1", "2"}
Whitespace == {SP, TAB, NL}
LineChars == Letters \cup AsciiDigits \cup {"-", SP, TAB, SUP2, AR3}

\* the lines of at most MaxLineLen characters, one line with three fields,
\* and the texts of one line or of a line followed by a well-formed line
Lines == UNION {[1..n -> LineChars] : n \in 0..MaxLineLen}
LongLines == {<<"Ore", TAB, "1", TAB, "2">>}
TailLines == {<<"Ore", TAB, "1">>, <<"Ore", TAB, "2">>, <<"Gas", TAB, "1">>, <<"Ore">>}
Texts ==
    Lines \cup LongLines
    \cup {first \o <<NL>> \o tail : first \in Lines \cup LongLines, tail \in TailLines}

\* str.strip()
RECURSIVE lstrip(_)
lstrip(s) ==
    IF s = <<>> THEN <<>>
    ELSE IF Head(s) \in Whitespace THEN lstrip(Tail(s)) ELSE s

RECURSIVE rstrip(_)
rstrip(s) ==
    IF s = <<>> THEN <<>>
    ELSE IF s[Len(s)] \in Whitespace THEN rstrip(SubSeq(s, 1, Len(s) - 1)) ELSE s

strip(s) == rstrip(lstrip(s))

\* str.split(sep): the fields between the separators, [''] for the empty string
RECURSIVE split(_, _)
split(s, sep) ==
    IF \A i \in DOMAIN s : s[i] # sep THEN <<s>>
    ELSE LET i == CHOOSE k \in DOMAIN s :
                    s[k] = sep /\ \A j \in 1..(k - 1) : s[j] # sep
         IN  <<SubSeq(s, 1, i - 1)>> \o split(SubSeq(s, i + 1, Len(s)), sep)

\* str.isdigit(): non-empty and every character a digit character
isdigit(s) == s # <<>> /\ \A i \in DOMAIN s : s[i] \in AsciiDigits \cup {SUP2, AR3}

DigitValue(c) == CASE c = "1" -> 1 [] c = "2" -> 2 [] c = AR3 -> 3

\* int(s) for a string of digit characters: ValueError for a digit character
\* that is not a decimal digit
RECURSIVE IntValue(_)
IntValue(s) ==
    IF s = <<>> THEN 0
    ELSE 10 * IntValue(SubSeq(s, 1, Len(s) - 1)) + DigitValue(s[Len(s)])

int(s) ==
    IF \E i \in DOMAIN s : s[i] = SUP2
    THEN [kind |-> "raise", exc |-> "ValueError"]
    ELSE [kind |-> "int", val |-> IntValue(s)]

\* the body of the loop of from_clipboard, for one line
ParseLine(acc, line) ==
    LET parts == split(strip(line), TAB)
        name == strip(parts[1])
    IN  IF acc.raised \/ name = <<>> THEN acc
        ELSE IF Len(parts) = 2 /\ isdigit(parts[2])
        THEN LET quantity == int(parts[2])
             IN  IF quantity.kind = "raise" THEN [acc EXCEPT !.raised = TRUE]
                 ELSE [acc EXCEPT !.items =
                         DictSet(@, name, GetQuantity(@, name) + quantity.val)]
        ELSE IF Len(parts) = 1
        THEN [acc EXCEPT !.items = DictSet(@, name, GetQuantity(@, name) + 1)]
        ELSE acc

RECURSIVE ParseFrom(_, _, _)
ParseFrom(lines, i, acc) ==
    IF i > Len(lines) THEN acc
    ELSE ParseFrom(lines, i + 1, ParseLine(acc, lines[i]))

\* RunState.from_clipboard: the snapshot, or the exception that leaves it
from_clipboard(clipboard_content) ==
    LET acc == ParseFrom(split(strip(clipboard_content), NL), 1,
                         [items |-> EmptyDict, raised |-> FALSE])
    IN  IF acc.raised THEN [kind |-> "raise", items |-> EmptyDict]
        ELSE [kind |-> "RunState", items |-> acc.items]

(***************************************************************************)
(* loot_run.py (repository root): RunState.from_clipboard                  *)
(***************************************************************************)
root_ParseLine(acc, line) ==
    IF acc.raised \/ (\A i \in DOMAIN line : line[i] # TAB) THEN acc
    ELSE LET parts == split(line, TAB)
         IN  IF Len(parts) = 2 /\ isdigit(parts[2])
             THEN LET name == strip(parts[1])
                      quantity == int(parts[2])
                  IN  IF quantity.kind = "raise" THEN [acc EXCEPT !.raised = TRUE]
                      ELSE [acc EXCEPT !.items = DictSet(@, name, quantity.val)]
             ELSE acc

RECURSIVE root_ParseFrom(_, _, _)
root_ParseFrom(lines, i, acc) ==
    IF i > Len(lines) THEN acc
    ELSE root_ParseFrom(lines, i + 1, root_ParseLine(acc, lines[i]))

root_from_clipboard(clipboard_content) ==
    LET acc == root_ParseFrom(split(strip(clipboard_content), NL), 1,
                              [items |-> EmptyDict, raised |-> FALSE])
    IN  IF acc.raised THEN [kind |-> "raise", items |-> EmptyDict]
        ELSE [kind |-> "RunState", items |-> acc.items]

(***************************************************************************)
(* data_manager.py: the runs database                                      *)
(*                                                                         *)
(* db.runs and db.run_items are the rows in insertion order; db.items is   *)
(* the items table, keyed by its PRIMARY KEY type_id, with UNIQUE names.   *)
(***************************************************************************)
PricedItem(name, type_id, quantity, min_sell, max_buy) ==
    [name |-> name, type_id |-> type_id, quantity |-> quantity,
     min_sell |-> min_sell, max_buy |-> max_buy]

\* LootRun(start_time=...): the dataclass with its defaults
LootRun(start_time) ==
    [kind |-> "LootRun", start_time |-> start_time, end_time |-> 0, ship_type |-> "N/A",
     states |-> <<>>, looted_items_priced |-> <<>>, consumed_items_priced |-> <<>>]

\* initialize_run_db on a fresh database file
EmptyDb == [runs |-> <<>>, items |-> EmptyDict, run_items |-> <<>>]

\* _ensure_item_exists: INSERT OR IGNORE, ignored when the type_id or the
\* name is already in the table
ensure_item_exists(items, type_id, item_name) ==
    IF type_id \in DOMAIN items \/ (\E t \in DOMAIN items : items[t] = item_name)
    THEN items
    ELSE DictSet(items, type_id, item_name)

\* one of the two loops of save_run from position i on; the INSERT into
\* run_items raises IntegrityError when items has no row for the type_id
RECURSIVE InsertItems(_, _, _, _, _)
InsertItems(acc, run_id, priced, i, status) ==
    IF acc.raised \/ i > Len(priced) THEN acc
    ELSE LET item == priced[i]
             ensured == ensure_item_exists(acc.items, item.type_id, item.name)
         IN  IF item.type_id \notin DOMAIN ensured
             THEN [acc EXCEPT !.raised = TRUE]
             ELSE InsertItems(
                    [items |-> ensured,
                     run_items |-> Append(acc.run_items,
                                     [run_id |-> run_id, type_id |-> item.type_id,
                                      quantity |-> item.quantity, min_sell |-> item.min_sell,
                                      max_buy |-> item.max_buy, status |-> status]),
                     raised |-> FALSE],
                    run_id, priced, i + 1, status)

\* save_run: the database after the commit, or raised with the database as
\* it was (the connection's context manager rolls the transaction back)
save_run(database, run) ==
    IF \E r \in DOMAIN database.runs : database.runs[r].start_time = run.start_time
    THEN [raised |-> TRUE, db |-> database]
    ELSE LET run_id == Len(database.runs) + 1
             row == [run_id |-> run_id, start_time |-> run.start_time,
                     end_time |-> run.end_time, ship_type |-> run.ship_type]
             looted == InsertItems([items |-> database.items,
                                    run_items |-> database.run_items, raised |-> FALSE],
                                   run_id, run.looted_items_priced, 1, "looted")
             consumed == InsertItems(looted, run_id, run.consumed_items_priced, 1, "consumed")
         IN  IF consumed.raised
             THEN [raised |-> TRUE, db |-> database]
             ELSE [raised |-> FALSE,
                   db |-> [runs |-> Append(database.runs, row),
                           items |-> consumed.items,
                           run_items |-> consumed.run_items]]

\* the rows of run_items of one run with one status, joined with items
RECURSIVE JoinedItems(_, _, _, _)
JoinedItems(database, run_id, status, i) ==
    IF i > Len(database.run_items) THEN <<>>
    ELSE LET ri == database.run_items[i]
             rest == JoinedItems(database, run_id, status, i + 1)
         IN  IF ri.run_id = run_id /\ ri.status = status /\ ri.type_id \in DOMAIN database.items
             THEN <<PricedItem(database.items[ri.type_id], ri.type_id, ri.quantity,
                               ri.min_sell, ri.max_buy)>> \o rest
             ELSE rest

load_runs_in_rowid_order(database) ==
    [i \in DOMAIN database.runs |->
       LET run_row == database.runs[i]
       IN  [kind |-> "LootRun", start_time |-> run_row.start_time,
            end_time |-> run_row.end_time, ship_type |-> run_row.ship_type,
            states |-> <<>>,
            looted_items_priced |-> JoinedItems(database, run_row.run_id, "looted", 1),
            consumed_items_priced |-> JoinedItems(database, run_row.run_id, "consumed", 1)]]

\* load_runs: the runs ORDER BY start_time DESC, each with its two lists
load_runs(database) ==
    LET n == Len(database.runs)
        order == CHOOSE f \in [1..n -> 1..n] :
                   \A i, j \in 1..n :
                     i < j => database.runs[f[i]].start_time > database.runs[f[j]].start_time
    IN  [i \in 1..n |->
           LET run_row == database.runs[order[i]]
           IN  [kind |-> "LootRun", start_time |-> run_row.start_time,
                end_time |-> run_row.end_time, ship_type |-> run_row.ship_type,
                states |-> <<>>,
                looted_items_priced |-> JoinedItems(database, run_row.run_id, "looted", 1),
                consumed_items_priced |-> JoinedItems(database, run_row.run_id, "consumed", 1)]]

(***************************************************************************)
(* main.py: LootTrackerApp                                                 *)
(***************************************************************************)
\* bounds of the application's inputs
MaxStart == 3
MaxSessions == 2
MaxQueue == 2

SHIP_TYPE_OPTIONS == {"Frigate", "Cruiser"}

\* the texts that are copied while the application runs
AppTexts ==
    {<<"Ore", TAB, "1">>,
     <<"Ore", TAB, "2">>,
     <<"Gas", TAB, "2">>,
     <<"Ore", TAB, SUP2>>}

\* the responses of the endpoint to the application's requests
AppResponses ==
    {Response("timeout", Raw("missing", 0), Raw("missing", 0)),
     Response("ok", Raw("num", 1), Raw("num", MaxPrice))}

Message(kind, text) == [kind |-> kind, content |-> text]

\* dict.items() and list(set(...)): the keys in one of their orders
Orderings(S) ==
    {f \in [1..Cardinality(S) -> S] : \A i, j \in 1..Cardinality(S) : f[i] = f[j] => i = j}
RECURSIVE KeyList(_)
KeyList(S) ==
    IF S = {} THEN <<>>
    ELSE LET k == CHOOSE x \in S : TRUE IN <<k>> \o KeyList(S \ {k})

priced_items_appended_twice(items, price_data) ==
    LET names == KeyList(DOMAIN items)
        once == [i \in DOMAIN names |->
                   PricedItem(names[i], price_data[names[i]].type_id, items[names[i]],
                              price_data[names[i]].min_sell, price_data[names[i]].max_buy)]
    IN  once \o once

\* the loop of stop_current_run over looted_items (and over consumed_items):
\* one PricedItem per name, with the price of the name
priced_items(items, price_data) ==
    LET names == KeyList(DOMAIN items)
    IN  [i \in DOMAIN names |->
           PricedItem(names[i], price_data[names[i]].type_id, items[names[i]],
                      price_data[names[i]].min_sell, price_data[names[i]].max_buy)]

(***************************************************************************)
(* Initial values of each group of variables                               *)
(***************************************************************************)
DiffInit ==
    /\ states = <<>>
    /\ diff_result = None

FetchInit == fetched = None

\* initialize_price_db on a fresh database: an empty prices table
CacheInit ==
    /\ now = 0
    /\ cache = EmptyDict
    /\ resolved_at = EmptyDict
    /\ last_put = EmptyDict
    /\ lookup = None

CallInit ==
    /\ pc = "idle"
    /\ calls = 0
    /\ item_names = <<>>
    /\ price_results = EmptyDict
    /\ items_to_fetch_api = <<>>
    /\ task_result = <<>>
    /\ done_order = <<>>
    /\ cache0 = EmptyDict
    /\ oplog = <<>>

\* no text has been parsed yet
ParseInit ==
    /\ content = <<>>
    /\ new_state = None
    /\ root_new_state = None

\* LootTrackerApp.__init__ on fresh databases, and compose
AppInit ==
    /\ active_run = None
    /\ app_pc = "idle"
    /\ crash = "none"
    /\ queue = <<>>
    /\ disabled = [start_run |-> FALSE, stop_run |-> TRUE]
    /\ stop_frame = None
    /\ runs = <<>>
    /\ db = EmptyDb
    /\ sessions = 0
    /\ last_content = <<>>

\* ClipboardMonitor.__init__: not running, nothing observed yet; the clipboard
\* is empty
MonitorInit ==
    /\ clipboard_monitor = [running |-> FALSE, last_content |-> <<>>]
    /\ clipboard = <<>>
    /\ intervals = 0
    /\ posted = <<>>
    /\ period = 0
    /\ monitor_call = None

Init == DiffInit /\ FetchInit /\ CacheInit /\ CallInit /\ ParseInit /\ AppInit /\ MonitorInit

(***************************************************************************)
(* The diff engine as a state machine: a session collects snapshots and    *)
(* is diffed.                                                              *)
(***************************************************************************)
\* LootRun.add_state
add_state(state) ==
    /\ Len(states) < MaxStates
    /\ states' = Append(states, state)
    /\ diff_result' = None
    /\ UNCHANGED <<appVars, parseVars, fetchVars, cacheVars, callVars, monVars>>

\* the two calls stop_current_run makes on the session, in either order and
\* any number of times
GetItems(looted_first) ==
    /\ LET between == IF looted_first THEN get_looted_items_states(states)
                      ELSE get_consumed_items_states(states)
           after == IF looted_first THEN get_consumed_items_states(between)
                    ELSE get_looted_items_states(between)
       IN  /\ diff_result' = [kind |-> "diff",
                              looted |-> get_looted_items(IF looted_first THEN states
                                                          ELSE between),
                              consumed |-> get_consumed_items(IF looted_first THEN between
                                                              ELSE states),
                              root_looted |-> root_get_looted_items(states),
                              root_consumed |-> root_get_consumed_items(states)]
           /\ states' = after
    /\ UNCHANGED <<appVars, parseVars, fetchVars, cacheVars, callVars, monVars>>

DiffNext ==
    \/ \E state \in RunStates : add_state(state)
    \/ \E looted_first \in BOOLEAN : GetItems(looted_first)

SpecDiff == Init /\ [][DiffNext]_vars

(***************************************************************************)
(* One fetch: any response of the endpoint, sanitized.                     *)
(***************************************************************************)
Fetch(response) ==
    /\ fetched' = [kind |-> "fetched", response |-> response,
                   price_tuple |-> fetch_price_from_api(response)]
    /\ UNCHANGED <<appVars, parseVars, diffVars, cacheVars, callVars, monVars>>

FetchNext == \E response \in Responses : Fetch(response)

SpecFetch == Init /\ [][FetchNext]_vars

(***************************************************************************)
(* get_prices_for_items as a state machine: the first loop, the fetches    *)
(* awaited by gather, the second loop; with the clock and the prices table *)
(***************************************************************************)
\* the responses the endpoint gives in a batch: every failure, and two payloads
BatchResponses ==
    FailedResponses
    \cup {Response("ok", Raw("num", 1), Raw("num", MaxPrice)),
          Response("ok", Raw("num", MaxPrice), Raw("str_nan", 0))}

NameLists == UNION {[1..n -> PriceNames] : n \in 0..MaxNames}

\* time passes while no synchronous code runs
Tick(t) ==
    /\ pc \in {"idle", "fetching"}
    /\ t > now
    /\ now' = t
    /\ lookup' = None
    /\ UNCHANGED <<appVars, parseVars, diffVars, fetchVars, cache, resolved_at, last_put, callVars, monVars>>

\* get_prices_for_items up to the await: the first loop, then one task per
\* value of items_to_fetch_api, each sending its request
Call(names, sde_fail, read_fail) ==
    /\ pc = "idle"
    /\ calls < MaxCalls
    /\ LET first == ClassifyFrom(names, 1, sde_fail, read_fail,
                                 [results |-> EmptyDict, to_fetch |-> <<>>, log |-> <<>>])
           requests == [i \in DOMAIN first.to_fetch |->
                          Op("fetch", first.to_fetch[i][1], first.to_fetch[i][2])]
       IN  /\ item_names' = names
           /\ price_results' = first.results
           /\ items_to_fetch_api' = first.to_fetch
           /\ task_result' = [i \in DOMAIN first.to_fetch |-> Pending]
           /\ oplog' = first.log \o requests
           /\ pc' = IF first.to_fetch = <<>> THEN "returned" ELSE "fetching"
    /\ done_order' = <<>>
    /\ cache0' = cache
    /\ UNCHANGED <<appVars, monVars, parseVars, diffVars, fetchVars, cacheVars, calls>>

\* the fetch of task i ends: fetch_price_from_api returns
FetchDone(i, response) ==
    /\ pc = "fetching"
    /\ i \in DOMAIN task_result
    /\ task_result[i] = Pending
    /\ task_result' = [task_result EXCEPT ![i] = fetch_price_from_api(response)]
    /\ done_order' = Append(done_order, i)
    /\ oplog' = Append(oplog, Op("done", items_to_fetch_api[i][1], items_to_fetch_api[i][2]))
    /\ UNCHANGED <<appVars, monVars, parseVars, diffVars, fetchVars, cacheVars, pc, calls, item_names,
                   price_results, items_to_fetch_api, cache0>>

\* the prices a cache write made for the result price_tuple of a fetch is
\* called with
PutArgs(price_tuple) == IF price_tuple # None THEN price_tuple.val ELSE <<F(0), F(0)>>

\* gather returns and the second loop runs; the cache writes at the
\* positions in write_fail raise
Process(write_fail) ==
    /\ pc = "fetching"
    /\ \A i \in DOMAIN task_result : task_result[i] # Pending
    /\ LET api_price_tuples == gather(task_result, done_order)
           second == ProcessFrom(items_to_fetch_api, api_price_tuples, 1, write_fail,
                                 [results |-> price_results, table |-> cache,
                                  log |-> oplog, raised |-> FALSE])
       IN  /\ price_results' = second.results
           /\ cache' = second.table
           /\ resolved_at' = [id \in DOMAIN second.table |->
                                IF \E e \in DOMAIN second.log :
                                     /\ e > Len(oplog)
                                     /\ second.log[e].id = id
                                THEN now ELSE resolved_at[id]]
           /\ last_put' = [id \in DOMAIN second.table |->
                             IF \E e \in DOMAIN second.log :
                                  /\ e > Len(oplog)
                                  /\ second.log[e].id = id
                             THEN LET i == CHOOSE k \in DOMAIN items_to_fetch_api :
                                             items_to_fetch_api[k][2] = id
                                  IN  [min_sell |-> PutArgs(api_price_tuples[i])[1],
                                       max_buy |-> PutArgs(api_price_tuples[i])[2],
                                       at |-> now]
                             ELSE last_put[id]]
           /\ oplog' = second.log
           /\ pc' = IF second.raised THEN "raised" ELSE "returned"
    /\ UNCHANGED <<appVars, monVars, parseVars, diffVars, fetchVars, now, lookup, calls, item_names,
                   items_to_fetch_api, task_result, done_order, cache0>>

\* the caller takes the result (or the exception) and the frame is gone
Return ==
    /\ pc \in {"returned", "raised"}
    /\ pc' = "idle"
    /\ calls' = calls + 1
    /\ item_names' = <<>>
    /\ price_results' = EmptyDict
    /\ items_to_fetch_api' = <<>>
    /\ task_result' = <<>>
    /\ done_order' = <<>>
    /\ cache0' = EmptyDict
    /\ oplog' = <<>>
    /\ UNCHANGED <<appVars, monVars, parseVars, diffVars, fetchVars, cacheVars>>

Next ==
    \/ \E t \in Instants : Tick(t)
    \/ \E names \in NameLists :
         \E sde_fail, read_fail \in SUBSET DOMAIN names : Call(names, sde_fail, read_fail)
    \/ \E i \in DOMAIN task_result : \E response \in BatchResponses : FetchDone(i, response)
    \/ \E write_fail \in SUBSET DOMAIN task_result : Process(write_fail)
    \/ Return

Spec == Init /\ [][Next]_vars

(***************************************************************************)
(* The parser as a state machine: a text is copied and parsed.             *)
(***************************************************************************)
\* on_clipboard_changed: RunState.from_clipboard(message.content), by the
\* RunState of domain/loot_run.py and by the one of loot_run.py; the parser
\* keeps no state between two texts, so a behaviour parses one text
Parse(text) ==
    /\ new_state = None
    /\ content' = text
    /\ new_state' = from_clipboard(text)
    /\ root_new_state' = root_from_clipboard(text)
    /\ UNCHANGED <<appVars, diffVars, fetchVars, cacheVars, callVars, monVars>>

ParseNext == \E text \in Texts : Parse(text)

SpecParse == Init /\ [][ParseNext]_vars

(***************************************************************************)
(* The price cache alone: puts and lookups as time passes.                 *)
(***************************************************************************)
PutPrices == {<<F(1), F(MaxPrice)>>, <<F(MaxPrice), F(0)>>}

\* update_cached_price(type_id, min_sell, max_buy)
CachePut(type_id, min_sell, max_buy) ==
    /\ cache' = update_cached_price(cache, type_id, min_sell, max_buy)
    /\ resolved_at' = DictSet(resolved_at, type_id, now)
    /\ last_put' = DictSet(last_put, type_id,
                           [min_sell |-> min_sell, max_buy |-> max_buy, at |-> now])
    /\ lookup' = None
    /\ UNCHANGED <<appVars, parseVars, diffVars, fetchVars, now, callVars, monVars>>

\* get_cached_price(type_id)
CacheGet(type_id, read_ok) ==
    /\ lookup' = [kind |-> "lookup", type_id |-> type_id, read_ok |-> read_ok,
                  result |-> get_cached_price(type_id, read_ok)]
    /\ cache' = get_cached_price_table(cache, type_id, read_ok)
    /\ UNCHANGED <<appVars, parseVars, diffVars, fetchVars, now, resolved_at, last_put, callVars, monVars>>

CacheNext ==
    \/ \E t \in Instants : Tick(t)
    \/ \E type_id \in TypeIds : \E p \in PutPrices : CachePut(type_id, p[1], p[2])
    \/ \E type_id \in TypeIds : \E read_ok \in BOOLEAN : CacheGet(type_id, read_ok)

SpecCache == Init /\ [][CacheNext]_vars

(***************************************************************************)
(* The application as a state machine. Messages (button presses, clipboard *)
(* changes) wait in the application's queue and are handled one at a time: *)
(* the next handler starts when the previous one has returned, so while    *)
(* stop_current_run is suspended at its await the messages that arrive     *)
(* stay in the queue. An exception that leaves a handler ends the          *)
(* application.                                                            *)
(***************************************************************************)
CountKind(kind) == Cardinality({i \in DOMAIN queue : queue[i].kind = kind})

\* the "Start Run" button is pressed
PressStart ==
    /\ app_pc # "crashed"
    /\ ~disabled.start_run
    /\ Len(queue) < MaxQueue
    /\ sessions + CountKind("start") < MaxSessions
    /\ queue' = Append(queue, Message("start", <<>>))
    /\ UNCHANGED <<active_run, app_pc, crash, disabled, stop_frame, runs, db, sessions,
                   last_content, parseVars, diffVars, fetchVars, cacheVars, callVars, monVars>>

\* the "Stop Run" button is pressed
PressStop ==
    /\ app_pc # "crashed"
    /\ ~disabled.stop_run
    /\ Len(queue) < MaxQueue
    /\ queue' = Append(queue, Message("stop", <<>>))
    /\ UNCHANGED <<active_run, app_pc, crash, disabled, stop_frame, runs, db, sessions,
                   last_content, parseVars, diffVars, fetchVars, cacheVars, callVars, monVars>>

\* ClipboardMonitor.poll_clipboard finds a text that is not the one it posted
\* last and posts ClipboardChanged(text)
Copy(text) ==
    /\ app_pc # "crashed"
    /\ Len(queue) < MaxQueue
    /\ active_run # None => Len(active_run.states) + CountKind("clip") < MaxStates
    /\ text # last_content
    /\ last_content' = text
    /\ queue' = Append(queue, Message("clip", text))
    /\ UNCHANGED <<active_run, app_pc, crash, disabled, stop_frame, runs, db, sessions,
                   parseVars, diffVars, fetchVars, cacheVars, callVars, monVars>>

\* on_button_pressed(start_run): start_new_run
start_new_run ==
    /\ app_pc = "idle"
    /\ queue # <<>>
    /\ Head(queue).kind = "start"
    /\ queue' = Tail(queue)
    /\ \E ship_type \in SHIP_TYPE_OPTIONS :
         active_run' = [LootRun(2 * sessions + 1) EXCEPT !.ship_type = ship_type]
    /\ sessions' = sessions + 1
    /\ disabled' = [start_run |-> TRUE, stop_run |-> FALSE]
    /\ UNCHANGED <<app_pc, crash, stop_frame, runs, db, last_content,
                   parseVars, diffVars, fetchVars, cacheVars, callVars, monVars>>

\* on_clipboard_changed
on_clipboard_changed ==
    /\ app_pc = "idle"
    /\ queue # <<>>
    /\ Head(queue).kind = "clip"
    /\ queue' = Tail(queue)
    /\ IF active_run = None
       THEN UNCHANGED <<active_run, app_pc, crash>>
       ELSE LET parsed == from_clipboard(Head(queue).content)
            IN  IF parsed.kind = "raise"
                THEN /\ app_pc' = "crashed"
                     /\ crash' = "from_clipboard"
                     /\ UNCHANGED active_run
                ELSE /\ active_run' = [active_run EXCEPT !.states = Append(@, parsed)]
                     /\ UNCHANGED <<app_pc, crash>>
    /\ UNCHANGED <<disabled, stop_frame, runs, db, sessions, last_content,
                   parseVars, diffVars, fetchVars, cacheVars, callVars, monVars>>

\* stop_current_run from "Append to in-memory list" on: the session is
\* appended to runs and handed to save_run, then active_run and the buttons
\* are reset; an exception of save_run leaves the handler before the reset
Close(run) ==
    LET saved == save_run(db, run)
    IN  /\ runs' = Append(runs, run)
        /\ IF saved.raised
           THEN /\ active_run' = run
                /\ app_pc' = "crashed"
                /\ crash' = "save_run"
                /\ UNCHANGED <<db, disabled>>
           ELSE /\ db' = saved.db
                /\ active_run' = None
                /\ app_pc' = "idle"
                /\ disabled' = [start_run |-> FALSE, stop_run |-> TRUE]
                /\ UNCHANGED crash

\* on_button_pressed(stop_run): stop_current_run, to its end when there is
\* no session or no name to price, and else up to the await with the first
\* loop of get_prices_for_items done
stop_current_run ==
    /\ app_pc = "idle"
    /\ queue # <<>>
    /\ Head(queue).kind = "stop"
    /\ queue' = Tail(queue)
    /\ IF active_run = None
       THEN UNCHANGED <<active_run, app_pc, crash, disabled, stop_frame, runs, db>>
       ELSE LET run == [active_run EXCEPT
                          !.end_time = active_run.start_time + 1,
                          !.states = get_consumed_items_states(get_looted_items_states(@))]
                looted_items == get_looted_items(run.states)
                consumed_items == get_consumed_items(run.states)
                names == DOMAIN looted_items \cup DOMAIN consumed_items
            IN  IF names = {}
                THEN /\ Close(run)
                     /\ UNCHANGED stop_frame
                ELSE \E unique_item_names \in Orderings(names) :
                     \E sde_fail, read_fail \in SUBSET DOMAIN unique_item_names :
                       LET first == ClassifyFrom(unique_item_names, 1, sde_fail, read_fail,
                                      [results |-> EmptyDict, to_fetch |-> <<>>, log |-> <<>>])
                       IN  /\ active_run' = run
                           /\ stop_frame' = [kind |-> "frame",
                                             looted_items |-> looted_items,
                                             consumed_items |-> consumed_items,
                                             price_results |-> first.results,
                                             items_to_fetch_api |-> first.to_fetch]
                           /\ app_pc' = "awaiting"
                           /\ UNCHANGED <<crash, disabled, runs, db>>
    /\ UNCHANGED <<sessions, last_content, parseVars, diffVars, fetchVars, cacheVars, callVars, monVars>>

\* stop_current_run from the await on: the fetches have ended, the second
\* loop of get_prices_for_items runs (an exception of update_cached_price
\* leaves both functions), the priced lists are filled and the session is
\* closed
StopResume ==
    /\ app_pc = "awaiting"
    /\ \E responses \in [DOMAIN stop_frame.items_to_fetch_api -> AppResponses] :
       \E write_fail \in SUBSET DOMAIN stop_frame.items_to_fetch_api :
         LET to_fetch == stop_frame.items_to_fetch_api
             api_price_tuples == [i \in DOMAIN to_fetch |-> fetch_price_from_api(responses[i])]
             second == ProcessFrom(to_fetch, api_price_tuples, 1, write_fail,
                                   [results |-> stop_frame.price_results, table |-> cache,
                                    log |-> <<>>, raised |-> FALSE])
             Written(id) == \E e \in DOMAIN second.log : second.log[e].id = id
             PutOf(id) == LET i == CHOOSE k \in DOMAIN to_fetch : to_fetch[k][2] = id
                          IN  [min_sell |-> PutArgs(api_price_tuples[i])[1],
                               max_buy |-> PutArgs(api_price_tuples[i])[2], at |-> now]
         IN  /\ cache' = second.table
             /\ resolved_at' = [id \in DOMAIN second.table |->
                                  IF Written(id) THEN now ELSE resolved_at[id]]
             /\ last_put' = [id \in DOMAIN second.table |->
                               IF Written(id) THEN PutOf(id) ELSE last_put[id]]
             /\ IF second.raised
                THEN /\ app_pc' = "crashed"
                     /\ crash' = "update_cached_price"
                     /\ UNCHANGED <<active_run, disabled, runs, db>>
                ELSE Close([active_run EXCEPT
                              !.looted_items_priced =
                                 priced_items(stop_frame.looted_items, second.results),
                              !.consumed_items_priced =
                                 priced_items(stop_frame.consumed_items, second.results)])
    /\ stop_frame' = None
    /\ UNCHANGED <<queue, sessions, last_content, now, lookup,
                   parseVars, diffVars, fetchVars, callVars, monVars>>

AppNext ==
    \/ PressStart
    \/ PressStop
    \/ \E text \in AppTexts : Copy(text)
    \/ start_new_run
    \/ on_clipboard_changed
    \/ stop_current_run
    \/ StopResume

SpecApp == Init /\ [][AppNext]_vars

\* the await of stop_current_run ends: every fetch ends, with a response or
\* with its timeout, and the handler runs on to its return or its exception
AwaitEnds == app_pc = "awaiting" /\ app_pc' \in {"idle", "crashed"}

\* the handler that awaits is resumed
SpecAppLive == SpecApp /\ WF_app_pc(AwaitEnds)

(***************************************************************************)
(* The run database alone: sessions are saved in any order of their start  *)
(* times and loaded.                                                       *)
(***************************************************************************)
\* the priced lists a saved session holds
StoreItems ==
    {<<>>,
     <<PricedItem(Ore, 1, 1, F(1), F(MaxPrice))>>,
     <<PricedItem(Gas, 2, 2, F(0), F(0)), PricedItem(Ore, 1, 1, F(1), F(MaxPrice))>>}

\* the closed sessions handed to save_run, each with a snapshot
StoreRuns ==
    {[LootRun(t) EXCEPT !.end_time = t + 1,
                        !.states = <<[kind |-> "RunState", items |-> (Ore :> 1)]>>,
                        !.looted_items_priced = l,
                        !.consumed_items_priced = c] :
       t \in 1..MaxStart, l \in StoreItems, c \in StoreItems}

\* save_run(run); when it raises the database is as before and the caller
\* has no saved session
SaveRun(run) ==
    /\ LET saved == save_run(db, run)
       IN  IF saved.raised
           THEN UNCHANGED <<runs, db>>
           ELSE /\ db' = saved.db
                /\ runs' = Append(runs, run)
    /\ UNCHANGED <<active_run, app_pc, crash, queue, disabled, stop_frame, sessions,
                   last_content, parseVars, diffVars, fetchVars, cacheVars, callVars, monVars>>

StoreNext == \E run \in StoreRuns : SaveRun(run)

SpecStore == Init /\ [][StoreNext]_vars

(***************************************************************************)
(* Claims on the fetch (SpecFetch)                                         *)
(***************************************************************************)
IsFinite(x) == x.kind = "float"
FiniteNonNegative(x) == x.kind = "float" /\ x.val >= 0

Priced == fetched # None /\ fetched.price_tuple # None

\* C5, its finite half: every price fetch_price_from_api returns is a finite
\* float, and 0.0 stands for a missing, null, non-numeric, NaN or infinite field.
C5_FetchedFinite ==
    Priced =>
      /\ IsFinite(fetched.price_tuple.val[1])
      /\ IsFinite(fetched.price_tuple.val[2])
      /\ fetched.response.minSell.kind \in
           {"missing", "null", "str_bad", "list", "nan", "str_nan",
            "inf", "str_inf", "ninf", "str_ninf"}
         => fetched.price_tuple.val[1] = F(0)
      /\ fetched.response.maxBuy.kind \in
           {"missing", "null", "str_bad", "list", "nan", "str_nan",
            "inf", "str_inf", "ninf", "str_ninf"}
         => fetched.price_tuple.val[2] = F(0)

\* C5: every price that leaves the fetch boundary is finite and non-negative:
\* whatever the raw fields of the response hold, both prices
\* fetch_price_from_api returns are finite numbers >= 0.
C5_FetchedFiniteNonNegative ==
    Priced =>
      /\ FiniteNonNegative(fetched.price_tuple.val[1])
      /\ FiniteNonNegative(fetched.price_tuple.val[2])

(***************************************************************************)
(* Claims on the price cache (SpecCache)                                   *)
(***************************************************************************)
LookedUp == lookup # None /\ lookup.read_ok

\* C9: get_cached_price(id) returns a hit exactly when an entry for id exists
\* and now - last_updated < TTL; an entry put at t0 is a hit (with the
\* stored prices) at every time up to t0 + TTL - 1 s and a miss at every time
\* from t0 + TTL on; an absent and a stale entry give the same miss, None.
C9_HitIffFresh ==
    LookedUp =>
      LET id == lookup.type_id
          hit == lookup.result # None
      IN  /\ hit <=> /\ id \in DOMAIN cache
                     /\ now < (cache[id].last_updated + CACHE_DURATION_SECONDS) * TicksPerSecond
          /\ hit => lookup.result = Some(<<cache[id].min_sell, cache[id].max_buy>>)
          /\ ~hit => lookup.result = None
          /\ id \in DOMAIN cache =>
               /\ now <= resolved_at[id] + TTLTicks - TicksPerSecond => hit
               /\ now >= resolved_at[id] + TTLTicks => ~hit

\* C9: a lookup exactly one TTL after the put, which misses on the entry
\* that is still stored
C9_Witness ==
    /\ LookedUp
    /\ lookup.type_id \in DOMAIN cache
    /\ now = resolved_at[lookup.type_id] + TTLTicks
    /\ lookup.result = None

\* C9: a lookup one second before the TTL has passed since the put, which hits
C9_WitnessHit ==
    /\ LookedUp
    /\ lookup.type_id \in DOMAIN cache
    /\ now = resolved_at[lookup.type_id] + TTLTicks - TicksPerSecond
    /\ lookup.result # None

C21_LookupLeavesCache ==
    [][/\ lookup' # None => cache' = cache
       /\ \A id \in DOMAIN cache :
            /\ id \in DOMAIN cache'
            /\ cache'[id] # cache[id] => (lookup' = None /\ resolved_at'[id] = now)]_vars

\* C21: a lookup has just missed on an entry that is in the table and stale
C21_Witness ==
    /\ lookup # None
    /\ lookup.read_ok
    /\ lookup.result = None
    /\ lookup.type_id \in DOMAIN cache
    /\ now - cache[lookup.type_id].last_updated * TicksPerSecond >= TTLTicks

(***************************************************************************)
(* Claims on get_prices_for_items (Spec)                                   *)
(***************************************************************************)
Returned == pc = "returned"

InputNames == {item_names[i] : i \in DOMAIN item_names}
Sources == {price_results[n].source : n \in DOMAIN price_results}
FetchIndex == DOMAIN items_to_fetch_api
Succeeded(i) == task_result[i] # None
Zero == F(0)

\* C3: the mapping get_prices_for_items returns has exactly one entry per
\* distinct input name: its key set is the set of the input names.
C3_OneEntryPerName == Returned => DOMAIN price_results = InputNames

\* C3: a returned batch of two names of two different provenances, one a
\* failed fetch
C3_Witness ==
    /\ Returned
    /\ Cardinality(InputNames) = 2
    /\ Cardinality(Sources) = 2
    /\ "api_fail" \in Sources

\* C4: an entry of provenance blueprint_skip, not_found or api_fail has both
\* prices 0; a non-zero price appears only with provenance cache or api.
C4_ZeroUnlessCacheOrLive ==
    \A n \in DOMAIN price_results :
      LET r == price_results[n]
      IN  /\ r.source \in {"blueprint_skip", "not_found", "api_fail", "cache", "api"}
          /\ r.source \in {"blueprint_skip", "not_found", "api_fail"}
             => r.min_sell = Zero /\ r.max_buy = Zero
          /\ (r.min_sell # Zero \/ r.max_buy # Zero) => r.source \in {"cache", "api"}

\* C4: a returned batch with a failed fetch at price 0 beside a live price
\* that is not 0
C4_Witness ==
    /\ Returned
    /\ \E n, m \in DOMAIN price_results :
         /\ price_results[n].source = "api_fail"
         /\ price_results[m].source = "api"
         /\ price_results[m].min_sell # Zero

\* C6: get_prices_for_items never ends with an exception, whichever of its
\* steps fails (reference lookup, cache read, cache write-back, fetch).
C6_NeverRaises == pc # "raised"

\* C7: the failure of one fetch changes no sibling's outcome: every fetched
\* name whose own fetch succeeded is reported api with the prices that fetch
\* returned, and only the names whose own fetch failed are reported api_fail.
C7_SiblingsUnaffected ==
    Returned =>
      \A i \in FetchIndex :
        LET name == items_to_fetch_api[i][1]
            type_id == items_to_fetch_api[i][2]
        IN  /\ Succeeded(i) =>
                 price_results[name] = Price(task_result[i].val[1], task_result[i].val[2],
                                             "api", type_id)
            /\ ~Succeeded(i) =>
                 price_results[name] = Price(Zero, Zero, "api_fail", type_id)

\* C7: a returned batch whose first fetch failed and whose second succeeded
C7_Witness ==
    /\ Returned
    /\ Len(items_to_fetch_api) = 2
    /\ ~Succeeded(1)
    /\ Succeeded(2)
    /\ price_results[items_to_fetch_api[2][1]].source = "api"

\* C8: after the call returns, a fetched name whose fetch succeeded is
\* reported api with the fetched prices and the cache holds them under its
\* identifier with the timestamp of now; one whose fetch failed is reported
\* api_fail and its cache entry is as it was when the call started.
C8_WriteBackOnSuccessOnly ==
    Returned =>
      \A i \in FetchIndex :
        LET name == items_to_fetch_api[i][1]
            type_id == items_to_fetch_api[i][2]
        IN  /\ Succeeded(i) =>
                 /\ price_results[name].source = "api"
                 /\ price_results[name].min_sell = task_result[i].val[1]
                 /\ price_results[name].max_buy = task_result[i].val[2]
                 /\ type_id \in DOMAIN cache
                 /\ cache[type_id] = [min_sell |-> task_result[i].val[1],
                                      max_buy |-> task_result[i].val[2],
                                      last_updated |-> Second(now)]
            /\ ~Succeeded(i) =>
                 /\ price_results[name].source = "api_fail"
                 /\ type_id \in DOMAIN cache <=> type_id \in DOMAIN cache0
                 /\ type_id \in DOMAIN cache0 => cache[type_id] = cache0[type_id]

\* C8: a returned batch in which one fetch succeeded and overwrote a stale
\* entry while the other failed and left its stale entry in place
C8_Witness ==
    /\ Returned
    /\ \E i, j \in FetchIndex :
         /\ Succeeded(i)
         /\ items_to_fetch_api[i][2] \in DOMAIN cache0
         /\ cache[items_to_fetch_api[i][2]] # cache0[items_to_fetch_api[i][2]]
         /\ ~Succeeded(j)
         /\ items_to_fetch_api[j][2] \in DOMAIN cache0

\* the names of the call that fall under the skip rule or got no identifier
\* from any of their reference lookups
Unpriced ==
    {n \in InputNames :
       \/ Contains(n, "Blueprint")
       \/ \A e \in DOMAIN oplog : (oplog[e].op = "sde" /\ oplog[e].name = n) => oplog[e].id = 0}

IdsOf(n) == IF n \in DOMAIN SdeTable THEN {SdeTable[n]} ELSE {}

\* C10: for a name under the skip rule or without identifier the call makes
\* no cache read, no cache write and no request, on the first and on every
\* later call; its cache entry is untouched, and a call of such names only
\* leaves the whole cache unchanged.
C10_NoCacheNoFetchForUnpriced ==
    /\ \A n \in Unpriced :
         /\ \A e \in DOMAIN oplog :
              oplog[e].op \in {"read", "fetch", "done", "write"}
              => oplog[e].name # n /\ oplog[e].id \notin IdsOf(n)
         /\ \A id \in IdsOf(n) :
              /\ id \in DOMAIN cache <=> id \in DOMAIN cache0
              /\ id \in DOMAIN cache0 => cache[id] = cache0[id]
    /\ (pc # "idle" /\ Unpriced = InputNames) =>
         /\ cache = cache0
         /\ \A e \in DOMAIN oplog : oplog[e].op = "sde"
         /\ items_to_fetch_api = <<>>

\* C10: a later call that resolved a blueprint and an unknown name over a
\* cache that holds entries
C10_Witness ==
    /\ Returned
    /\ calls > 0
    /\ cache # EmptyDict
    /\ \E n, m \in Unpriced :
         /\ Contains(n, "Blueprint") /\ price_results[n].type_id # 0
         /\ m \notin DOMAIN SdeTable

\* the positions of the log that hold an operation of one of the kinds
OpsAt(kinds) == {e \in DOMAIN oplog : oplog[e].op \in kinds}

\* C25: within one get_prices_for_items call every reference lookup and
\* every cache read (so every classification as skipped, not_found, cache
\* hit or cache miss) happens before the first request is issued, and no
\* cache write happens before every fetch of the batch has ended.
C25_ReadsFetchesWrites ==
    /\ \A e \in OpsAt({"sde", "read"}) : \A f \in OpsAt({"fetch"}) : e < f
    /\ \A w \in OpsAt({"write"}) : \A f \in OpsAt({"fetch"}) :
         /\ f < w
         /\ \E d \in OpsAt({"done"}) : d < w /\ oplog[d].name = oplog[f].name

\* C25: a returned call that classified a cache miss before another name,
\* fetched two names and wrote a price
C25_Witness ==
    /\ Returned
    /\ Cardinality(OpsAt({"fetch"})) = 2
    /\ OpsAt({"write"}) # {}
    /\ \E e \in OpsAt({"read"}) : \E g \in OpsAt({"sde"}) : e < g

\* the requests of the call for one name
FetchesOf(name) == {f \in OpsAt({"fetch"}) : oplog[f].name = name}

\* C26: within one get_prices_for_items batch no type_id is fetched more
\* than once: for any list of names, also with repeated names and with
\* several cache misses, the fan-out issues at most one request per type_id
\* and exactly one request per cache-miss name.
C26_OneFetchPerId ==
    /\ \A f \in OpsAt({"fetch"}) : \A g \in OpsAt({"fetch"}) :
         oplog[f].id = oplog[g].id => f = g
    /\ pc # "idle" =>
         /\ \A i \in DOMAIN items_to_fetch_api :
              Cardinality(FetchesOf(items_to_fetch_api[i][1])) = 1
         /\ \A f \in OpsAt({"fetch"}) :
              \E i \in DOMAIN items_to_fetch_api :
                items_to_fetch_api[i] = <<oplog[f].name, oplog[f].id>>

\* C26: a call whose list names the same cache miss twice has issued its
\* request
C26_Witness ==
    /\ pc = "fetching"
    /\ Len(item_names) = 2
    /\ item_names[1] = item_names[2]
    /\ Cardinality(OpsAt({"read"})) = 2
    /\ Cardinality(OpsAt({"fetch"})) = 1

\* C26: a call with two different cache misses has issued a request for each
C26_WitnessTwoMisses ==
    /\ pc = "fetching"
    /\ Len(item_names) = 2
    /\ item_names[1] # item_names[2]
    /\ Cardinality(OpsAt({"fetch"})) = 2

\* C27: fetch results are attributed to the right item whatever the order
\* in which the concurrent fetches end: for every fetched name whose fetch
\* returned prices, the prices reported for the name and the prices in the
\* cache under its type_id are the ones the fetch issued for that type_id
\* returned, never those of a sibling fetch.
C27_AttributedToOwnFetch ==
    Returned =>
      \A i \in FetchIndex :
        Succeeded(i) =>
          /\ price_results[items_to_fetch_api[i][1]].type_id = items_to_fetch_api[i][2]
          /\ price_results[items_to_fetch_api[i][1]].min_sell = task_result[i].val[1]
          /\ price_results[items_to_fetch_api[i][1]].max_buy = task_result[i].val[2]
          /\ cache[items_to_fetch_api[i][2]].min_sell = task_result[i].val[1]
          /\ cache[items_to_fetch_api[i][2]].max_buy = task_result[i].val[2]

\* C27: a returned batch of two fetches with different prices, the second of
\* which ended first
C27_Witness ==
    /\ Returned
    /\ done_order = <<2, 1>>
    /\ Succeeded(1)
    /\ Succeeded(2)
    /\ task_result[1] # task_result[2]

\* a step in which a get_prices_for_items call runs its first loop
CallStep == pc = "idle" /\ pc' # "idle"

\* in the call of this step every reference lookup and every cache read for
\* the name ended without error
ResolvedAndRead(n) ==
    /\ n \in DOMAIN SdeTable
    /\ ~Contains(n, "Blueprint")
    /\ \A e \in DOMAIN oplog' :
         oplog'[e].name = n =>
           /\ oplog'[e].op = "sde" => oplog'[e].id # 0
           /\ oplog'[e].op = "read" => oplog'[e].ok

\* the call of this step reports n from the cache with the prices of the
\* last write and issues no request for it
FromCache(n) ==
    /\ n \in DOMAIN price_results'
    /\ price_results'[n] = Price(last_put[SdeTable[n]].min_sell,
                                 last_put[SdeTable[n]].max_buy, "cache", SdeTable[n])
    /\ \A e \in DOMAIN oplog' : oplog'[e].op = "fetch" => oplog'[e].name # n

\* the call of this step issues a request for n
FetchedAgain(n) ==
    \E e \in DOMAIN oplog' : oplog'[e].op = "fetch" /\ oplog'[e].name = n

\* cache-aside with the entry of n expiring at the tick expiry
CacheAside(n, expiry) ==
    /\ now < expiry => FromCache(n)
    /\ now > expiry => FetchedAgain(n)

\* the names of the call of this step that an earlier call reported api
\* (and wrote to the cache), and that this call resolves and reads
Rechecked ==
    {n \in {item_names'[i] : i \in DOMAIN item_names'} :
       ResolvedAndRead(n) /\ SdeTable[n] \in DOMAIN last_put}

\* C29: cache-aside across batches: once a call has reported a name as api
\* at time t, every later call for the name made before t + TTL, with no
\* other write to its type_id in between, reports it with provenance cache
\* and the same two prices and issues no request for it; after t + TTL the
\* name is fetched again. (For the calls whose reference lookup and cache
\* read of the name end without error.)
C29_CacheAside ==
    [][CallStep =>
         \A n \in Rechecked : CacheAside(n, last_put[SdeTable[n]].at + TTLTicks)]_vars

\* C29, with t taken in whole seconds as update_cached_price stores it
C29_CacheAsideWholeSeconds ==
    [][CallStep =>
         \A n \in Rechecked :
           /\ CacheAside(n, Second(last_put[SdeTable[n]].at) * TicksPerSecond + TTLTicks)
           /\ now = Second(last_put[SdeTable[n]].at) * TicksPerSecond + TTLTicks
              => FetchedAgain(n)]_vars

\* C29: a later call has returned from the cache a price that an earlier
\* call fetched and wrote in the second half of a second
C29_Witness ==
    /\ Returned
    /\ calls >= 1
    /\ \E n \in DOMAIN price_results :
         /\ price_results[n].source = "cache"
         /\ last_put[price_results[n].type_id].at % TicksPerSecond # 0

(***************************************************************************)
(* Claims on the diff engine (SpecDiff)                                    *)
(***************************************************************************)
\* quantity of a name in a snapshot, an absent name counting as 0
QtyOrZero(items, n) == IF n \in DOMAIN items THEN items[n] ELSE 0

\* looted and consumed are exactly the positive differences final - initial
\* and initial - final, over the names of final and of initial
ExactDiff(looted, consumed, initial, final) ==
    /\ DOMAIN looted \subseteq DOMAIN final
    /\ DOMAIN consumed \subseteq DOMAIN initial
    /\ \A n \in DOMAIN final :
         /\ n \in DOMAIN looted <=> final[n] > QtyOrZero(initial, n)
         /\ n \in DOMAIN looted => looted[n] = final[n] - QtyOrZero(initial, n)
    /\ \A n \in DOMAIN initial :
         /\ n \in DOMAIN consumed <=> initial[n] > QtyOrZero(final, n)
         /\ n \in DOMAIN consumed => consumed[n] = initial[n] - QtyOrZero(final, n)

Diffed == diff_result # None /\ Len(states) >= 2

\* C1, for domain/loot_run.py: with at least two snapshots, get_looted_items
\* and get_consumed_items return exactly the positive differences between
\* the first and the last snapshot.
C1_PackageDiffExact ==
    Diffed => ExactDiff(diff_result.looted, diff_result.consumed,
                        states[1].items, states[Len(states)].items)

\* C1, for loot_run.py at the repository root: the same statement.
C1_RootDiffExact ==
    Diffed => ExactDiff(diff_result.root_looted, diff_result.root_consumed,
                        states[1].items, states[Len(states)].items)

\* C1: for every session with at least two snapshots, get_looted_items
\* returns exactly {n -> final[n] - initial[n]} over the names of the final
\* snapshot with final[n] > initial[n], and get_consumed_items exactly
\* {n -> initial[n] - final[n]} over the names of the initial snapshot with
\* initial[n] > final[n], an absent name counting as 0; in both LootRun
\* classes of the repository.
C1_DiffExact == C1_PackageDiffExact /\ C1_RootDiffExact

\* C1: a diff of two snapshots with a gained, a new and a lost item
C1_Witness ==
    /\ Diffed
    /\ diff_result.looted # EmptyDict
    /\ diff_result.consumed # EmptyDict

\* the sessions that share the first and the last snapshot of sts
SameEnds(sts) ==
    {<<sts[1], sts[Len(sts)]>>}
    \cup {<<sts[1], mid, sts[Len(sts)]>> : mid \in RunStates}

\* C2: the diff of a session depends only on its first and last snapshot:
\* every session with the same first and the same last snapshot, whatever
\* lies in between, has the looted and consumed mappings this one returned.
C2_FirstLastOnly ==
    Diffed => \A other \in SameEnds(states) :
                 /\ get_looted_items(other) = diff_result.looted
                 /\ get_consumed_items(other) = diff_result.consumed

\* C2: a diffed session of three snapshots whose middle snapshot, taken as
\* the last one, would have given another result
C2_Witness ==
    /\ Diffed
    /\ Len(states) = 3
    /\ diff_result.looted # EmptyDict
    /\ get_looted_items(<<states[1], states[2]>>) # diff_result.looted
    /\ get_consumed_items(<<states[1], states[2]>>) # diff_result.consumed

(***************************************************************************)
(* Further claims on the diff engine (SpecDiff)                            *)
(***************************************************************************)
\* C14: for every session with fewer than two snapshots (none or exactly
\* one), get_looted_items and get_consumed_items both return the empty
\* mapping, whatever the single snapshot holds; in both LootRun classes of
\* the repository.
C14_FewerThanTwoEmpty ==
    (diff_result # None /\ Len(states) < 2) =>
      /\ diff_result.looted = EmptyDict
      /\ diff_result.consumed = EmptyDict
      /\ diff_result.root_looted = EmptyDict
      /\ diff_result.root_consumed = EmptyDict

\* C14: a session of exactly one snapshot that holds items has been diffed
C14_Witness ==
    /\ diff_result # None
    /\ Len(states) = 1
    /\ \E n \in DOMAIN states[1].items : states[1].items[n] > 0

\* C15: for every pair (initial, final) of snapshots the key sets of the
\* looted and the consumed mapping are disjoint: no name is reported both as
\* gained and as lost by the same diff.
C15_LootedConsumedDisjoint ==
    Diffed => DOMAIN diff_result.looted \cap DOMAIN diff_result.consumed = {}

\* C15: a diff that reports one name as gained and another as lost
C15_Witness ==
    /\ Diffed
    /\ \E n \in DOMAIN diff_result.looted :
         \E m \in DOMAIN diff_result.consumed : n # m

(***************************************************************************)
(* Claims on the parser (SpecParse)                                        *)
(***************************************************************************)
Parsed == new_state # None

\* the lines of the text and the fields of a line, as written
TextLines(text) == split(text, NL)
RawFields(line) == split(line, TAB)

Blank(field) == strip(field) = <<>>
NoSpace(field) == field # <<>> /\ \A i \in DOMAIN field : field[i] \notin Whitespace
AsciiInteger(field) == field # <<>> /\ \A i \in DOMAIN field : field[i] \in AsciiDigits

\* a line "name<tab>quantity" with a non-empty name and an ASCII integer
WellFormedLine(line) ==
    /\ Len(RawFields(line)) = 2
    /\ ~Blank(RawFields(line)[1])
    /\ AsciiInteger(RawFields(line)[2])
NameOf(line) == strip(RawFields(line)[1])
QuantityOf(line) == IntValue(RawFields(line)[2])

\* a line with one field: a non-empty name and no delimiter
OneFieldLine(line) == ~Blank(line) /\ \A i \in DOMAIN line : line[i] # TAB

\* two well-formed lines of the same name
DuplicateLines ==
    /\ Parsed
    /\ Len(TextLines(content)) = 2
    /\ WellFormedLine(TextLines(content)[1])
    /\ WellFormedLine(TextLines(content)[2])
    /\ NameOf(TextLines(content)[1]) = NameOf(TextLines(content)[2])

SummedItems ==
    DictSet(EmptyDict, NameOf(TextLines(content)[1]),
            QuantityOf(TextLines(content)[1]) + QuantityOf(TextLines(content)[2]))

Swapped == TextLines(content)[2] \o <<NL>> \o TextLines(content)[1]

\* C16, for domain/loot_run.py: the quantities of two lines of the same name
\* are summed into one entry, in either order of the lines.
C16_PackageDuplicatesSummed ==
    DuplicateLines =>
      /\ new_state.kind = "RunState"
      /\ new_state.items = SummedItems
      /\ from_clipboard(Swapped) = new_state

\* C16, for loot_run.py at the repository root: the same statement.
C16_RootDuplicatesSummed ==
    DuplicateLines =>
      /\ root_new_state.kind = "RunState"
      /\ root_new_state.items = SummedItems
      /\ root_from_clipboard(Swapped) = root_new_state

\* C16: when the same item name occurs on several lines of one text,
\* from_clipboard sums the quantities of those lines into a single entry
\* instead of keeping the last one, and the result does not depend on the
\* order of the duplicate lines; in both RunState classes of the repository.
C16_DuplicatesSummed == C16_PackageDuplicatesSummed /\ C16_RootDuplicatesSummed

\* C16: a text of two lines of the same name with different quantities
C16_Witness ==
    /\ DuplicateLines
    /\ QuantityOf(TextLines(content)[1]) # QuantityOf(TextLines(content)[2])
    /\ new_state.items = SummedItems

SingleLine == Parsed /\ Len(TextLines(content)) = 1

\* C17, for domain/loot_run.py: a line with one field counts 1 for its name
\* and a line "name<tab>integer" counts that integer.
C17_PackageQuantities ==
    /\ (SingleLine /\ OneFieldLine(content)) =>
         /\ new_state.kind = "RunState"
         /\ new_state.items = DictSet(EmptyDict, strip(content), 1)
    /\ (SingleLine /\ WellFormedLine(content)) =>
         /\ new_state.kind = "RunState"
         /\ new_state.items = DictSet(EmptyDict, NameOf(content), QuantityOf(content))

\* C17, for loot_run.py at the repository root: the same statement.
C17_RootQuantities ==
    /\ (SingleLine /\ OneFieldLine(content)) =>
         /\ root_new_state.kind = "RunState"
         /\ root_new_state.items = DictSet(EmptyDict, strip(content), 1)
    /\ (SingleLine /\ WellFormedLine(content)) =>
         /\ root_new_state.kind = "RunState"
         /\ root_new_state.items = DictSet(EmptyDict, NameOf(content), QuantityOf(content))

\* C17: a line with exactly one field (a non-empty name and no tab)
\* contributes quantity 1 for that name, and a line with two fields whose
\* second field is a non-negative integer contributes exactly that
\* integer; in both RunState classes of the repository.
C17_LineQuantities == C17_PackageQuantities /\ C17_RootQuantities

\* C17: a one-field line has been parsed into quantity 1
C17_Witness ==
    /\ SingleLine
    /\ OneFieldLine(content)
    /\ new_state.kind = "RunState"
    /\ new_state.items = DictSet(EmptyDict, strip(content), 1)

\* a line with a name whose second field is present and is no ASCII
\* integer, or that has more than two fields
MalformedLine(line) ==
    LET fields == RawFields(line)
    IN  /\ Len(fields) >= 2
        /\ \A i \in DOMAIN fields : NoSpace(fields[i])
        /\ (Len(fields) = 2 => ~AsciiInteger(fields[2]))

\* the text that is left when its first line is dropped
WithoutFirstLine(text) ==
    IF Len(TextLines(text)) = 1 THEN <<>> ELSE TextLines(text)[2]

\* C18: for every text from_clipboard returns a snapshot without raising,
\* and a line whose second field is not a valid non-negative integer (a
\* non-numeric token, a negative number, a non-ASCII digit, more than two
\* fields) is dropped entirely: the snapshot is the one of the other lines.
C18_MalformedDropped ==
    Parsed =>
      /\ new_state.kind = "RunState"
      /\ MalformedLine(TextLines(content)[1]) =>
           new_state = from_clipboard(WithoutFirstLine(content))

\* C18: a malformed line followed by a well-formed one has been parsed and
\* only the well-formed line is in the snapshot
C18_Witness ==
    /\ Parsed
    /\ Len(TextLines(content)) = 2
    /\ MalformedLine(TextLines(content)[1])
    /\ new_state.kind = "RunState"
    /\ new_state.items # EmptyDict
    /\ new_state = from_clipboard(WithoutFirstLine(content))

\* a line with a delimiter whose name field is empty after trimming
EmptyNameLine(line) == Len(RawFields(line)) >= 2 /\ Blank(RawFields(line)[1])

NameFields(text) ==
    {strip(RawFields(TextLines(text)[i])[1]) : i \in DOMAIN TextLines(text)}

\* C19: a line whose name field (the text before the tab) is empty after
\* trimming adds no item, whatever its second field holds, and no snapshot
\* contains an entry for a name that was not the name field of an input line.
C19_EmptyNameSkipped ==
    (Parsed /\ new_state.kind = "RunState") =>
      /\ EmptyNameLine(TextLines(content)[1]) =>
           new_state = from_clipboard(WithoutFirstLine(content))
      /\ DOMAIN new_state.items \subseteq NameFields(content)

\* C19: a line with an empty name and a second field, followed by a
\* well-formed line, has been parsed
C19_Witness ==
    /\ Parsed
    /\ Len(TextLines(content)) = 2
    /\ EmptyNameLine(TextLines(content)[1])
    /\ ~Blank(TextLines(content)[1])
    /\ new_state.kind = "RunState"

(***************************************************************************)
(* Claims on the application (SpecApp, SpecAppLive)                        *)
(***************************************************************************)
\* the session that was closed last is in the database
LastRunSaved ==
    /\ runs # <<>>
    /\ \E r \in DOMAIN db.runs : db.runs[r].start_time = runs[Len(runs)].start_time

SessionClosed == app_pc = "idle" /\ active_run = None /\ ~disabled.start_run /\ LastRunSaved

\* C11: a session can always be closed: whenever stop_current_run has been
\* invoked on an active session and awaits the prices, then for every
\* combination of missing reference dataset, cache misses and failing or
\* timed-out fetches the close eventually completes: the session is in runs
\* with its priced lists, save_run has stored it, active_run is None and a
\* new session can be started. A failing cache write is none of the named
\* conditions, so a close that it ends is left aside.
C11_CloseCompletes ==
    (app_pc = "awaiting") ~> (SessionClosed \/ crash = "update_cached_price")

\* C11: no exception of save_run leaves stop_current_run
C11_SaveReturns == crash # "save_run"

\* C11: a close has completed after its fetches failed and nothing was resolved
C11_Witness ==
    /\ SessionClosed
    /\ runs[Len(runs)].looted_items_priced # <<>>
    /\ \A k \in DOMAIN runs[Len(runs)].looted_items_priced :
         runs[Len(runs)].looted_items_priced[k].min_sell = F(0)

\* a priced list has exactly one PricedItem per name of the diff, with the
\* diff's quantity
OnePerName(priced, items) ==
    /\ Len(priced) = Cardinality(DOMAIN items)
    /\ \A k \in DOMAIN priced :
         /\ priced[k].name \in DOMAIN items
         /\ priced[k].quantity = items[priced[k].name]
    /\ \A n \in DOMAIN items : \E k \in DOMAIN priced : priced[k].name = n

\* C12: for every interleaving of start, snapshot and stop events, also of
\* events that arrive while stop_current_run awaits the prices, the priced
\* lists are filled exactly once, at close: they are empty while the session
\* is open, and every closed session holds exactly one PricedItem per name
\* of the diff of its first and last snapshot, with that diff's quantity.
C12_PricedOnceAtClose ==
    /\ (active_run # None /\ app_pc # "crashed") =>
         /\ active_run.looted_items_priced = <<>>
         /\ active_run.consumed_items_priced = <<>>
    /\ \A i \in DOMAIN runs :
         /\ OnePerName(runs[i].looted_items_priced, get_looted_items(runs[i].states))
         /\ OnePerName(runs[i].consumed_items_priced, get_consumed_items(runs[i].states))

\* C12: a session was closed with both lists filled, and in the next
\* session an event has arrived while stop_current_run awaits the prices
C12_Witness ==
    /\ Len(runs) = 1
    /\ runs[1].looted_items_priced # <<>>
    /\ runs[1].consumed_items_priced # <<>>
    /\ app_pc = "awaiting"
    /\ queue # <<>>

\* the items of a list, as a set
ItemSet(priced) == {priced[k] : k \in DOMAIN priced}

\* a loaded session equals the saved one but for the transient snapshots
SameSession(loaded, run) ==
    /\ loaded.start_time = run.start_time
    /\ loaded.end_time = run.end_time
    /\ loaded.ship_type = run.ship_type
    /\ Len(loaded.looted_items_priced) = Len(run.looted_items_priced)
    /\ Len(loaded.consumed_items_priced) = Len(run.consumed_items_priced)
    /\ ItemSet(loaded.looted_items_priced) = ItemSet(run.looted_items_priced)
    /\ ItemSet(loaded.consumed_items_priced) = ItemSet(run.consumed_items_priced)

\* the sessions for which save_run has returned
SavedRuns == {i \in DOMAIN runs : ~(crash = "save_run" /\ i = Len(runs))}

\* C13: save/load round trip: for every closed session, also one with
\* several unresolved items (type_id 0) or with items that earlier sessions
\* stored, the session load_runs returns for its start time has the same
\* timestamps and metadata, and its looted and consumed lists hold exactly
\* the saved items, each with its name, type_id, quantity and both prices.
C13_SaveLoadRoundTrip ==
    \A i \in SavedRuns :
      \E k \in DOMAIN load_runs(db) :
        /\ load_runs(db)[k].start_time = runs[i].start_time
        /\ SameSession(load_runs(db)[k], runs[i])

\* C13: a session with a looted and a consumed item has been saved and loaded
C13_Witness ==
    \E i \in SavedRuns :
      /\ runs[i].looted_items_priced # <<>>
      /\ runs[i].consumed_items_priced # <<>>
      /\ \E k \in DOMAIN load_runs(db) : load_runs(db)[k].start_time = runs[i].start_time

(***************************************************************************)
(* Further claims on the application (SpecApp)                             *)
(***************************************************************************)
\* a step that starts a session: start_new_run is the one handler that
\* counts a session
StartsSession == sessions' # sessions

\* a step in which stop_current_run begins to close the active session
BeginsClose ==
    /\ active_run # None
    /\ \/ app_pc' = "awaiting" /\ app_pc # "awaiting"
       \/ Len(runs') > Len(runs) /\ app_pc = "idle"

\* C28, its second part: a close begins only when no close is in progress
C28_ClosesOneAtATime ==
    [][BeginsClose => (app_pc = "idle" /\ stop_frame = None)]_vars

\* C28, its third part: each closed session is appended to runs exactly
\* once and handed to save_run exactly once, so runs and the runs table
\* hold one entry per closed session.
C28_ClosedOnce ==
    /\ \A i \in DOMAIN runs : \A j \in DOMAIN runs :
         runs[i].start_time = runs[j].start_time => i = j
    /\ \A i \in SavedRuns :
         Cardinality({r \in DOMAIN db.runs : db.runs[r].start_time = runs[i].start_time}) = 1
    /\ Len(db.runs) = Cardinality(SavedRuns)
    /\ Len(runs) <= sessions

\* C28: at most one session is active at any time and sessions are closed
\* one at a time: a new session is started only when no session is active
\* or being closed, a second close does not begin while a close is in
\* progress, and each closed session is appended to runs and handed to
\* save_run exactly once.
C28_OneSessionAtATime ==
    /\ [][/\ StartsSession => (active_run = None /\ app_pc = "idle")
          /\ BeginsClose => (app_pc = "idle" /\ stop_frame = None)]_vars
    /\ []C28_ClosedOnce

\* C28: two sessions have been started and closed, one after the other,
\* the second while a press waited in the queue
C28_Witness ==
    /\ Len(runs) = 2
    /\ Len(db.runs) = 2
    /\ active_run = None
    /\ queue # <<>>

\* a step in which on_clipboard_changed handles a ClipboardChanged message
ClipHandled ==
    /\ app_pc = "idle"
    /\ queue # <<>>
    /\ Head(queue).kind = "clip"
    /\ queue' = Tail(queue)

\* the step appends exactly one snapshot at the end of the active session
\* and changes nothing else of it
OneSnapshotAppended ==
    /\ active_run' # None
    /\ Len(active_run'.states) = Len(active_run.states) + 1
    /\ SubSeq(active_run'.states, 1, Len(active_run.states)) = active_run.states
    /\ active_run' = [active_run EXCEPT !.states = active_run'.states]

\* the step keeps the snapshots of the session it leaves active in place
SnapshotsKept ==
    (active_run # None /\ active_run' # None
     /\ active_run'.start_time = active_run.start_time)
    => /\ Len(active_run'.states) >= Len(active_run.states)
       /\ SubSeq(active_run'.states, 1, Len(active_run.states)) = active_run.states

\* C30, for the texts from_clipboard returns a snapshot for
C30_ParsedTextAppended ==
    [][(ClipHandled /\ active_run # None
        /\ from_clipboard(Head(queue).content).kind = "RunState")
       => OneSnapshotAppended]_vars

\* C30: snapshots are kept in capture order and only for an active session:
\* each clipboard-change event handled while a session is active appends
\* exactly one snapshot at the end of the session's sequence, the snapshots
\* recorded before stay where they are (the first at index 0) for the whole
\* session, and an event handled while no session is active changes no
\* state at all.
C30_SnapshotsInCaptureOrder ==
    [][/\ (ClipHandled /\ active_run # None) => OneSnapshotAppended
       /\ (ClipHandled /\ active_run = None) =>
            UNCHANGED <<active_run, app_pc, crash, disabled, stop_frame, runs, db,
                        sessions, cacheVars>>
       /\ SnapshotsKept]_vars

\* C30: a session holds three snapshots, the first two different, in the
\* order they were copied
C30_Witness ==
    /\ active_run # None
    /\ Len(active_run.states) = 3
    /\ active_run.states[1] # active_run.states[2]
    /\ active_run.states[3] = from_clipboard(last_content)

(***************************************************************************)
(* Claims on the quantities of the diff (SpecDiff)                         *)
(***************************************************************************)
\* every value of the two mappings is at least 1, and a name whose quantity
\* is the same in the first and the last snapshot (absent counting as 0) is
\* in neither
PositiveDiff(looted, consumed, initial, final) ==
    /\ \A n \in DOMAIN looted : looted[n] >= 1
    /\ \A n \in DOMAIN consumed : consumed[n] >= 1
    /\ \A n \in DOMAIN initial \cup DOMAIN final :
         QtyOrZero(initial, n) = QtyOrZero(final, n)
         => n \notin DOMAIN looted /\ n \notin DOMAIN consumed

\* C23, for domain/loot_run.py
C23_PackagePositive ==
    Diffed => PositiveDiff(diff_result.looted, diff_result.consumed,
                           states[1].items, states[Len(states)].items)

\* C23, for loot_run.py at the repository root
C23_RootPositive ==
    Diffed => PositiveDiff(diff_result.root_looted, diff_result.root_consumed,
                           states[1].items, states[Len(states)].items)

\* C23: every quantity recorded by the diff is a strictly positive integer:
\* for all snapshot pairs, also when a name is in only one of the two
\* snapshots with quantity 0, no entry of looted or consumed is 0 or
\* negative, and a name with unchanged quantity is in neither mapping; in
\* both LootRun classes of the repository.
C23_QuantitiesPositive == C23_PackagePositive /\ C23_RootPositive

\* C23: a diff of two snapshots in which a name with quantity 0 is in the
\* last snapshot only, beside a name that was gained
C23_Witness ==
    /\ Diffed
    /\ \E n \in DOMAIN states[Len(states)].items \ DOMAIN states[1].items :
         states[Len(states)].items[n] = 0
    /\ diff_result.looted # EmptyDict

MaxPeriods == 3
MaxPosted == 3

\* the texts the clipboard holds
ClipTexts == {<<>>, <<"Ore", TAB, "1">>, <<"Ore", TAB, "2">>}

\* ClipboardChanged(content), with the running period it was posted in
ClipboardChanged(text) == [content |-> text, period |-> period]

\* another program puts a text on the clipboard
SetClipboard(text) ==
    /\ text # clipboard
    /\ clipboard' = text
    /\ monitor_call' = [call |-> "copy", read_ok |-> TRUE, was_running |-> clipboard_monitor.running]
    /\ UNCHANGED <<clipboard_monitor, intervals, posted, period>>
    /\ UNCHANGED <<appVars, parseVars, diffVars, fetchVars, cacheVars, callVars>>

\* ClipboardMonitor.start: when the monitor is not running it sets running,
\* reads the clipboard into _last_content and registers a polling timer; a
\* read that raises leaves start after running was set
start(read_ok) ==
    /\ IF ~clipboard_monitor.running
         THEN /\ period < MaxPeriods
              /\ period' = period + 1
              /\ IF read_ok
                   THEN /\ clipboard_monitor' = [running |-> TRUE, last_content |-> clipboard]
                        /\ intervals' = intervals + 1
                   ELSE /\ clipboard_monitor' = [clipboard_monitor EXCEPT !.running = TRUE]
                        /\ UNCHANGED intervals
         ELSE /\ read_ok
              /\ UNCHANGED <<clipboard_monitor, intervals, period>>
    /\ monitor_call' = [call |-> "start", read_ok |-> read_ok, was_running |-> clipboard_monitor.running]
    /\ UNCHANGED <<clipboard, posted>>
    /\ UNCHANGED <<appVars, parseVars, diffVars, fetchVars, cacheVars, callVars>>

\* ClipboardMonitor.stop: the timers stay registered
stop ==
    /\ clipboard_monitor' = [clipboard_monitor EXCEPT !.running = FALSE]
    /\ monitor_call' = [call |-> "stop", read_ok |-> TRUE, was_running |-> clipboard_monitor.running]
    /\ UNCHANGED <<clipboard, intervals, posted, period>>
    /\ UNCHANGED <<appVars, parseVars, diffVars, fetchVars, cacheVars, callVars>>

\* ClipboardMonitor.poll_clipboard, called by one of the registered timers
poll_clipboard(timer, read_ok) ==
    /\ timer \in 1..intervals
    /\ IF ~clipboard_monitor.running
         THEN /\ read_ok
              /\ UNCHANGED <<clipboard_monitor, posted>>
         ELSE IF read_ok /\ clipboard # clipboard_monitor.last_content
                THEN /\ Len(posted) < MaxPosted
                     /\ clipboard_monitor' = [clipboard_monitor EXCEPT !.last_content = clipboard]
                     /\ posted' = Append(posted, ClipboardChanged(clipboard))
                ELSE UNCHANGED <<clipboard_monitor, posted>>
    /\ monitor_call' = [call |-> "poll", read_ok |-> read_ok, was_running |-> clipboard_monitor.running]
    /\ UNCHANGED <<clipboard, intervals, period>>
    /\ UNCHANGED <<appVars, parseVars, diffVars, fetchVars, cacheVars, callVars>>

MonitorNext ==
    \/ \E text \in ClipTexts : SetClipboard(text)
    \/ \E read_ok \in BOOLEAN : start(read_ok)
    \/ stop
    \/ \E timer \in 1..MaxPeriods, read_ok \in BOOLEAN : poll_clipboard(timer, read_ok)

SpecMonitor == Init /\ [][MonitorNext]_vars

(***************************************************************************)
(* Claims on the clipboard monitor (SpecMonitor)                           *)
(***************************************************************************)
\* the step is a call of the named method
MonitorCalls(call) == monitor_call' # None /\ monitor_call'.call = call

\* the step posts exactly one message: the clipboard's text, which becomes
\* the last observed content
PostsClipboard ==
    /\ Len(posted') = Len(posted) + 1
    /\ SubSeq(posted', 1, Len(posted)) = posted
    /\ posted'[Len(posted')].content = clipboard
    /\ clipboard_monitor'.last_content = clipboard

\* a message is posted exactly by a poll that runs while the monitor is
\* running, reads the clipboard and finds a text other than the last observed
PostsExactlyOnChange ==
    (posted' # posted) <=>
        /\ MonitorCalls("poll")
        /\ clipboard_monitor.running
        /\ monitor_call'.read_ok
        /\ clipboard # clipboard_monitor.last_content

\* two messages that follow each other in one running period differ in content
ConsecutiveDiffer ==
    \A i \in 1..(Len(posted) - 1) :
        posted[i].period = posted[i + 1].period => posted[i].content # posted[i + 1].content

\* a call whose clipboard read raised posted nothing and changed no field of
\* the monitor and no timer
FailedReadChangesNothing(calls_) ==
    (monitor_call' # None /\ monitor_call'.call \in calls_ /\ ~monitor_call'.read_ok) =>
        UNCHANGED <<clipboard_monitor, intervals, posted>>

\* C31 (as checked for poll_clipboard alone): a message is posted exactly when
\* a poll runs while the monitor is running and reads a text other than the
\* last observed one, which it then records; a poll whose read fails posts
\* nothing and changes nothing; within one running period no two consecutive
\* messages carry the same content, also with two timers registered.
C31_PollPostsOnChange ==
    /\ [][/\ PostsExactlyOnChange
          /\ (posted' # posted) => PostsClipboard
          /\ FailedReadChangesNothing({"poll"})]_vars
    /\ []ConsecutiveDiffer

\* C31: ClipboardMonitor posts a ClipboardChanged message exactly when a poll
\* runs while the monitor is running and the clipboard content differs from
\* the last observed content, and then records that content as last observed:
\* no message is posted while the monitor is stopped (also by timers
\* registered before stop), a failed clipboard read posts nothing and changes
\* nothing, and within one running period no two consecutive messages carry
\* the same content, also after stop() followed by start() registered a
\* second polling timer.
C31_PostsExactlyOnChange ==
    /\ [][/\ PostsExactlyOnChange
          /\ (posted' # posted) => PostsClipboard
          /\ FailedReadChangesNothing({"poll", "start"})]_vars
    /\ []ConsecutiveDiffer

\* C31: two timers are registered, the monitor runs in its second period and
\* has posted two messages in it, after one posted in the first period
C31_Witness ==
    /\ intervals = 2
    /\ clipboard_monitor.running
    /\ Len(posted) = 3
    /\ posted[1].period = 1
    /\ posted[2].period = 2
    /\ posted[3].period = 2

\* C31: a start whose clipboard read raised has left the monitor running with
\* no timer registered
C31_WitnessFailedStart ==
    /\ monitor_call # None
    /\ monitor_call.call = "start"
    /\ ~monitor_call.read_ok
    /\ clipboard_monitor.running
    /\ intervals = 0

====
